---- MODULE Spec2Model ----
(***************************************************************************)
(* Receipt_Spendle: field resolution and reconciliation engine.            *)
(*                                                                         *)
(*   app/api.py     resolve_fields        (specification Spec)             *)
(*   app/parser.py  extract_total_*       (specification SpecTotal)        *)
(*   app/parser.py  extract_date          (specification SpecDate)         *)
(*   app/ph_rules.py  correct_store_name, rule_category                    *)
(*                                        (specification SpecBrand)        *)
(*   all of them, one call at a time      (specification SpecCore)         *)
(*   app/parser.py  extract_store         (specification SpecStore)        *)
(*   app/api.py     get_current_user and its cache                         *)
(*                                        (specification SpecAuth)         *)
(*   app/api.py     upload_receipt, _process_job and the pipeline of one   *)
(*                  receipt (specifications SpecPipeline, SpecJobs and,    *)
(*                  with fairness, FairPipeline, FairJobs)                 *)
(*                                                                         *)
(* Conventions.  Python's None is the empty tuple and a present value x is *)
(* the one-element tuple <<x>>.  Amounts are integers in centavos          *)
(* (100.01 is 10001).  A float that may be NaN is a record                 *)
(* [nan |-> BOOLEAN, v |-> Int].  Scores of resolve_fields are scaled by   *)
(* 400 so that every term of the sum is an integer.                        *)
(***************************************************************************)
EXTENDS Integers, Sequences, FiniteSets, TLC

VARIABLES
    rpc,          \* position of the caller of resolve_fields: "idle" | "done"
    tess_rec,     \* argument tess_rec, as the fields parsed from it
    tess_conf,    \* argument tess_conf (float, possibly NaN)
    ocrs,         \* argument ocrs (OCR.space payload)
    vision,       \* argument vision (Google Vision payload)
    paddle,       \* argument paddle (None or the paddle candidate dict)
    candidates,   \* local `candidates` of resolve_fields
    best,         \* index in candidates of local `best` (0 before a call)
    result,       \* returned (store, amount, date, source_tag)
    tpc,          \* position of the caller of the amount extractors: "idle" | "done"
    called,       \* the extractor called: "textonly" | "layout" ("" before a call)
    words,        \* argument words of extract_total_layout
    full_text,    \* argument text / full_text: a sequence of lines, each a sequence of words
    scored,       \* local `candidates` of extract_total_layout, each with its score
    amount,        \* the returned amount (None or an amount in centavos)
    amount_from,   \* where the returned amount was read (bookkeeping for the claims)
    dpc,          \* position of the caller of extract_date: "idle" | "done"
    dtext,        \* argument text of extract_date: a sequence of lines
    ddate,        \* the returned date (None or a calendar date)
    spc,          \* position of the caller of ph_rules: "idle" | "snapped" | "categorized"
    raw_store,    \* argument store (None or a string)
    receipt_text, \* argument ocr_text of rule_category (None or a string)
    hashseed,     \* per process, the seed of its string hash
    normed,       \* normalize_store_name(store)
    snapped,      \* per process, the result of correct_store_name(store)
    category,     \* the result of rule_category(ocr_text, store)
    xpc,          \* position of the caller of extract_store: "idle" | "done"
    xtext,        \* argument text of extract_store: a sequence of lines
    xstore,       \* the returned store (None or a string)
    now,          \* time.time(), in seconds
    user_cache,   \* _USER_CACHE: per token, None or the expiry of its entry
    served,       \* the last answer of get_current_user (None before the first)
    enabled,      \* the OCR providers switched on by the environment flags
    uploads,      \* the number of receipts uploaded so far
    clock,        \* time.time() of the job registry, one tick per update
    jobs,         \* JOBS: per job id, None or the job's record
    work          \* per job id, the position of its _process_job task, its
                  \* provider tasks and its calls of resolve_fields

rvars == <<rpc, tess_rec, tess_conf, ocrs, vision, paddle, candidates, best, result>>

tvars == <<tpc, called, words, full_text, scored, amount, amount_from>>

dvars == <<dpc, dtext, ddate>>

svars == <<spc, raw_store, receipt_text, hashseed, normed, snapped, category>>

xvars == <<xpc, xtext, xstore>>

avars == <<now, user_cache, served>>

jvars == <<enabled, uploads, clock, jobs, work>>

evars == <<xvars, avars, jvars>>

vars == <<rvars, tvars, dvars, svars, evars>>

----------------------------------------------------------------------------
(* Optional values *)

None == <<>>

Some(x) == <<x>>

IsNone(o) == o = <<>>

Val(o) == o[1]

Num(n) == [nan |-> FALSE, v |-> n]

NaN == [nan |-> TRUE, v |-> 0]

Abs(n) == IF n < 0 THEN -n ELSE n

Min2(a, b) == IF a < b THEN a ELSE b

Max2(a, b) == IF a > b THEN a ELSE b

----------------------------------------------------------------------------
(* Input domains of resolve_fields *)

\* Store lines as extract_store returns them (already trimmed by _norm).
Stores == {"ACME", "Acme", "BETA"}

\* str.strip().upper() on the stores above.
StripUpper(s) == IF s = "Acme" THEN "ACME" ELSE s

\* Totals in centavos: 100.00, 100.01, 100.02.
Totals == {10000, 10001, 10002}

Dates == {"2024-01-01", "2024-01-02"}

\* mean_conf values of a Tesseract pass that found words.
TessConfs == {60}

Opt(S) == {None} \cup {Some(x) : x \in S}

\* abs(float(a) - float(b)) <= 0.01 in IEEE-754 binary64 for two amounts one
\* centavo apart: 100.01 - 100.0 = 0.010000000000005116 (not close), while
\* 100.02 - 100.01 = 0.009999999999990905 (close).
FloatClosePairs == {<<10001, 10002>>}

----------------------------------------------------------------------------
(* resolve_fields: helpers *)

close_amt(a, b) ==
    IF IsNone(a) \/ IsNone(b) THEN FALSE
    ELSE LET d == Abs(Val(a) - Val(b))
         IN  d = 0 \/ (d = 1 /\ <<Min2(Val(a), Val(b)), Max2(Val(a), Val(b))>> \in FloatClosePairs)

eq_store(a, b) ==
    IF IsNone(a) \/ IsNone(b) THEN FALSE
    ELSE StripUpper(Val(a)) = StripUpper(Val(b))

\* Priorities times 10: paddle_vl -0.2, tesseract 0, ocr_space 0.5, vision 2.
Priority10(source) ==
    CASE source = "tesseract" -> 0
      [] source = "ocr_space" -> 5
      [] source = "vision"    -> 20
      [] source = "paddle_vl" -> -2

Cand(source, store, total, date, confidence) ==
    [source |-> source, store |-> store, total |-> total, date |-> date,
     confidence |-> confidence, priority |-> Priority10(source)]

\* t_store = t_store or fb_store, t_total = t_total if not None else fb_total,
\* t_date = t_date or fb_date; confidence = tess_conf or 0.0.  extract_store
\* and extract_date read the same text in both parses, so rec.store and
\* rec.date stand for both; rec.total is the layout total of
\* parse_fields_from_ocr and rec.fb_total the text-only total of parse_fields.
TessCandidate(rec, conf) ==
    Cand("tesseract", rec.store,
         IF ~IsNone(rec.total) THEN rec.total ELSE rec.fb_total,
         rec.date, conf)

\* vision confidence: (v_conf or 0.0) * 100 if isinstance(v_conf, float) else 50.0
\* (p.conf holds v_conf in percent, so 0.8 is 80).
VisionConfidence(p) == IF IsNone(p.conf) THEN Num(50) ELSE Num(Val(p.conf))

BuildCandidates(rec, conf, o, v, p) ==
    <<TessCandidate(rec, conf)>>
    \o (IF o.ok /\ o.text
        THEN <<Cand("ocr_space", o.store, o.total, o.date, Num(70))>> ELSE <<>>)
    \o (IF v.ok /\ v.text
        THEN <<Cand("vision", v.store, v.total, v.date, VisionConfidence(v))>> ELSE <<>>)
    \o (IF ~IsNone(p)
        THEN <<Cand("paddle_vl", Val(p).store, Val(p).total, Val(p).date,
                    Num(Val(p).confidence))>> ELSE <<>>)

\* score(cand), times 400.  min(nan, 100.0) is nan, and nan propagates.
score(cand) ==
    IF cand.confidence.nan THEN NaN
    ELSE Num( (IF ~IsNone(cand.store) THEN 800 ELSE 0)
            + (IF ~IsNone(cand.total) THEN 1400 ELSE 0)
            + (IF ~IsNone(cand.date) THEN 480 ELSE 0)
            + 10 * Min2(cand.confidence.v, 100)
            + 40 * Max2(0, 30 - cand.priority)
            + (IF cand.source = "ocr_space" THEN 100 ELSE 0)
            + (IF cand.source = "paddle_vl" THEN 200 ELSE 0) )

\* a > b on floats: False as soon as one side is NaN.
FloatGt(a, b) == ~a.nan /\ ~b.nan /\ a.v > b.v

\* max(candidates, key=score): the first item is the running maximum and an
\* item replaces it only when its key compares greater.
RECURSIVE MaxScan(_, _, _)
MaxScan(cands, i, m) ==
    IF i > Len(cands) THEN m
    ELSE IF FloatGt(score(cands[i]), score(cands[m]))
         THEN MaxScan(cands, i + 1, i)
         ELSE MaxScan(cands, i + 1, m)

BestIndex(cands) == MaxScan(cands, 2, 1)

\* A reconciler that never reports agreement.
Consensus_Never(cands, b) == FALSE

\* Consensus loop: any candidate other than best matching best on all three.
Consensus(cands, b) ==
    \E i \in 1..Len(cands) :
        /\ i # b
        /\ eq_store(cands[i].store, cands[b].store)
        /\ close_amt(cands[i].total, cands[b].total)
        /\ cands[i].date = cands[b].date /\ ~IsNone(cands[b].date)

\* sorted(candidates, key=priority): stable insertion into a sorted prefix.
RECURSIVE InsertByPriority(_, _)
InsertByPriority(sorted, c) ==
    IF sorted = <<>> THEN <<c>>
    ELSE IF c.priority < Head(sorted).priority THEN <<c>> \o sorted
         ELSE <<Head(sorted)>> \o InsertByPriority(Tail(sorted), c)

\* A back-fill order that keeps the order in which the candidates were built.
SortByPriority_BuildOrder(cands) == cands

RECURSIVE SortByPriority(_)
SortByPriority(cands) ==
    IF cands = <<>> THEN <<>>
    ELSE InsertByPriority(SortByPriority(SubSeq(cands, 1, Len(cands) - 1)),
                          cands[Len(cands)])

\* A reconciler that returns the best candidate's fields without back-fill.
BackFill_BestOnly(sorted, store, total, date) ==
    [store |-> store, total |-> total, date |-> date]

\* The back-fill loop over sorted_candidates.
RECURSIVE BackFill(_, _, _, _)
BackFill(sorted, store, total, date) ==
    IF sorted = <<>> THEN [store |-> store, total |-> total, date |-> date]
    ELSE LET c == Head(sorted)
         IN  BackFill(Tail(sorted),
                 IF IsNone(store) /\ ~IsNone(c.store) THEN c.store ELSE store,
                 IF IsNone(total) /\ ~IsNone(c.total) THEN c.total ELSE total,
                 IF IsNone(date) /\ ~IsNone(c.date) THEN c.date ELSE date)

SourceTag(cands, b) == IF Consensus(cands, b) THEN "consensus" ELSE cands[b].source

\* resolve_fields from the candidate list on: (store, total, date, source_tag).
Reconcile(cands) ==
    IF cands = <<>>
    THEN [store |-> None, total |-> None, date |-> None, source_tag |-> "unknown"]
    ELSE LET b == BestIndex(cands)
             f == BackFill(SortByPriority(cands), cands[b].store, cands[b].total, cands[b].date)
         IN  [store |-> f.store, total |-> f.total, date |-> f.date,
              source_tag |-> SourceTag(cands, b)]

----------------------------------------------------------------------------
(* resolve_fields: the payloads _process_receipt_pipeline can pass *)

\* The readings a source can make of one receipt.  The receipt reads
\* BaseReading; a source may miss any of the three fields, and may misread one
\* field, in which case it reports either the whole reading or that field alone.
BaseReading == [store |-> "ACME", total |-> 10000, date |-> "2024-01-01"]

Departs(r, f) == ~IsNone(r[f]) /\ Val(r[f]) # BaseReading[f]

Fields == {"store", "total", "date"}

Readings ==
    {r \in [store : Opt(Stores), total : Opt(Totals), date : Opt(Dates)] :
        \/ \A f \in Fields : ~Departs(r, f)
        \/ \E f \in Fields :
              /\ Departs(r, f)
              /\ \/ \A g \in Fields \ {f} : ~IsNone(r[g]) /\ ~Departs(r, g)
                 \/ \A g \in Fields \ {f} : IsNone(r[g])}

\* rec = {"text": "", "mean_conf": 0.0, "words": []}: the Tesseract task raised
\* or was not started; tess_conf is then 0.0.
TessFailed ==
    [text |-> FALSE, store |-> None, total |-> None, fb_total |-> None, date |-> None]

\* A pass that found no word: the text is blank and mean_conf is float("nan").
TessBlank ==
    [text |-> TRUE, store |-> None, total |-> None, fb_total |-> None, date |-> None]

\* A pass that read r, the layout total and the text-only total agreeing; two
\* more payloads have the layout pass find no amount or another amount.
TessRead ==
    {[text |-> TRUE, store |-> r.store, total |-> r.total, fb_total |-> r.total,
      date |-> r.date] : r \in Readings}
    \cup {[text |-> TRUE, store |-> Some("ACME"), total |-> None,
           fb_total |-> Some(10002), date |-> Some("2024-01-01")],
          [text |-> TRUE, store |-> Some("ACME"), total |-> Some(10000),
           fb_total |-> Some(10002), date |-> Some("2024-01-01")]}

TessInputs ==
    {<<TessFailed, Num(0)>>, <<TessBlank, NaN>>}
    \cup {<<r, Num(c)>> : r \in TessRead, c \in TessConfs}

WithOk(r) == [ok |-> TRUE, text |-> TRUE, store |-> r.store, total |-> r.total, date |-> r.date]

\* OCR.space: ok = bool(text) and not IsErroredOnProcessing.
OcrsInputs ==
    {[ok |-> FALSE, text |-> FALSE, store |-> None, total |-> None, date |-> None],
     [ok |-> FALSE, text |-> TRUE, store |-> None, total |-> None, date |-> None]}
    \cup {WithOk(r) : r \in Readings}

\* Google Vision: ok = bool(text.strip()); info.confidence is None or a float.
VisionConfs == {80}

VisionInputs ==
    {[ok |-> FALSE, text |-> FALSE, store |-> None, total |-> None, date |-> None, conf |-> None]}
    \cup {[ok |-> TRUE, text |-> TRUE, store |-> r.store, total |-> r.total, date |-> r.date,
           conf |-> c] : r \in Readings, c \in Opt(VisionConfs)}

\* paddle_candidate: built only when one of vl_store, vl_total, vl_date is not
\* None, with confidence 90.0 (the fields are set only from an ok payload).
PaddleInputs ==
    {None} \cup
    {Some([store |-> r.store, total |-> r.total, date |-> r.date, confidence |-> 90]) :
        r \in {q \in Readings : ~(IsNone(q.store) /\ IsNone(q.total) /\ IsNone(q.date))}}

----------------------------------------------------------------------------
(* resolve_fields: the state machine *)

NoResult == [store |-> None, total |-> None, date |-> None, source_tag |-> ""]

RIdle ==
    /\ rpc = "idle"
    /\ tess_rec = TessFailed
    /\ tess_conf = Num(0)
    /\ ocrs = [ok |-> FALSE, text |-> FALSE, store |-> None, total |-> None, date |-> None]
    /\ vision = [ok |-> FALSE, text |-> FALSE, store |-> None, total |-> None, date |-> None,
                 conf |-> None]
    /\ paddle = None
    /\ candidates = <<>>
    /\ best = 0
    /\ result = NoResult

\* One call resolve_fields(tess_rec, tess_conf, ocrs, vision, paddle=...).
ResolveFields ==
    /\ rpc = "idle"
    /\ \E t \in TessInputs, o \in OcrsInputs, v \in VisionInputs, p \in PaddleInputs :
         LET cands == BuildCandidates(t[1], t[2], o, v, p)
         IN  /\ tess_rec' = t[1]
             /\ tess_conf' = t[2]
             /\ ocrs' = o
             /\ vision' = v
             /\ paddle' = p
             /\ candidates' = cands
             /\ best' = IF cands = <<>> THEN 0 ELSE BestIndex(cands)
             /\ result' = Reconcile(cands)
    /\ rpc' = "done"
    /\ UNCHANGED <<tvars, dvars, svars, evars>>

\* The caller takes the result; the next receipt starts from scratch.
ResolveReturn ==
    /\ rpc = "done"
    /\ rpc' = "idle"
    /\ tess_rec' = TessFailed
    /\ tess_conf' = Num(0)
    /\ ocrs' = [ok |-> FALSE, text |-> FALSE, store |-> None, total |-> None, date |-> None]
    /\ vision' = [ok |-> FALSE, text |-> FALSE, store |-> None, total |-> None, date |-> None,
                  conf |-> None]
    /\ paddle' = None
    /\ candidates' = <<>>
    /\ best' = 0
    /\ result' = NoResult
    /\ UNCHANGED <<tvars, dvars, svars, evars>>

----------------------------------------------------------------------------
(* parser.py: what the keyword lists and regular expressions find in a word *)

\* Words whose lower case contains one of TOTAL_KEYS.
TotalKeyWords == {"GRAND TOTAL", "TOTAL", "AMOUNT DUE"}

\* Words whose lower case contains "due", "payable" or "pay".
DuePayWords == {"AMOUNT DUE"}

\* Words whose lower case contains one of LOW_PRIORITY_KEYS.
LowPriorityWords == {"CASH TENDERED", "CASH"}

\* Words the _currency pattern finds.
CurrencyWords == {"PHP"}

\* An amount pattern that would keep a leading minus sign.
AmountsIn_Signed(word) ==
    CASE word = "1,234.56" -> <<123456>>
      [] word = "2,000.00" -> <<200000>>
      [] word = "-5.00"    -> <<-500>>
      [] word = "120.00"   -> <<12000>>
      [] word = "450.00"   -> <<45000>>
      [] OTHER             -> <<>>

\* _def_amt.finditer on one word: float(match.group(1).replace(",", "")) of
\* each match, in centavos.  AMT has no sign and needs two decimals: "-5.00"
\* yields 5.00 and "450" yields nothing.
AmountsIn(word) ==
    CASE word = "1,234.56" -> <<123456>>
      [] word = "2,000.00" -> <<200000>>
      [] word = "-5.00"    -> <<500>>
      [] word = "120.00"   -> <<12000>>
      [] word = "450.00"   -> <<45000>>
      [] OTHER             -> <<>>

HasWordIn(line, S) == \E i \in 1..Len(line) : line[i] \in S

\* _def_amt.finditer(line): the matches of the words, left to right.
RECURSIVE AmountsOfLine(_)
AmountsOfLine(line) ==
    IF line = <<>> THEN <<>>
    ELSE AmountsIn(Head(line)) \o AmountsOfLine(Tail(line))

is_low_priority_line(line) == HasWordIn(line, LowPriorityWords)

\* Scores of the text-only mode are scaled by TextScale.
TextScale == 12 * 2000000

line_currency_score(line) == IF HasWordIn(line, CurrencyWords) THEN TextScale ELSE 0

line_totalish_score(line) ==
      (IF HasWordIn(line, TotalKeyWords) THEN 4 * TextScale ELSE 0)
    + (IF HasWordIn(line, DuePayWords) THEN (3 * TextScale) \div 2 ELSE 0)

\* The position bonus of _score_amount_candidate for line i = idx + 1 of n:
\* max(0.0, 2.0 * (1.0 - idx / len(lines))).
position_bonus(i, n) ==
    IF n > 0 THEN Max2(0, (2 * TextScale * (n - (i - 1))) \div n) ELSE 0

\* _score_amount_candidate(idx, line, value, lines), with i = idx + 1.
score_amount_candidate(i, value, lines) ==
    LET n == Len(lines)
        line == lines[i]
    IN    line_totalish_score(line)
        + line_currency_score(line)
        + (IF i + 1 <= n
           THEN (8 * line_totalish_score(lines[i + 1])) \div 10
                + (4 * line_currency_score(lines[i + 1])) \div 10
           ELSE 0)
        + (IF i > 1
           THEN (6 * line_totalish_score(lines[i - 1])) \div 10
                + (3 * line_currency_score(lines[i - 1])) \div 10
           ELSE 0)
        + position_bonus(i, n)
        + Min2(value, 5000000) * (TextScale \div 2000000)
        - (IF is_low_priority_line(line) THEN 3 * TextScale ELSE 0)

\* 1e-6 on the scale of the scores.
ScoreTolerance == TextScale \div 1000000

NoAmount == [has |-> FALSE, score |-> 0, val |-> 0, line |-> 0]

\* The update of (best_score, best_val) in _best_amount.
BetterAmount(acc, sc, val, i) ==
    IF \/ ~acc.has
       \/ sc > acc.score
       \/ Abs(sc - acc.score) < ScoreTolerance /\ val > acc.val
    THEN [has |-> TRUE, score |-> sc, val |-> val, line |-> i]
    ELSE acc

RECURSIVE ScanMatches(_, _, _, _, _)
ScanMatches(vals, k, i, lines, acc) ==
    IF k > Len(vals) THEN acc
    ELSE ScanMatches(vals, k + 1, i, lines,
                     BetterAmount(acc, score_amount_candidate(i, vals[k], lines), vals[k], i))

\* A scored pass that would not skip the payment lines.
RECURSIVE ScanLines_NoSkip(_, _, _)
ScanLines_NoSkip(lines, i, acc) ==
    IF i > Len(lines) THEN acc
    ELSE ScanLines_NoSkip(lines, i + 1, ScanMatches(AmountsOfLine(lines[i]), 1, i, lines, acc))

RECURSIVE ScanLines(_, _, _)
ScanLines(lines, i, acc) ==
    IF i > Len(lines) THEN acc
    ELSE IF is_low_priority_line(lines[i]) THEN ScanLines(lines, i + 1, acc)
    ELSE ScanLines(lines, i + 1, ScanMatches(AmountsOfLine(lines[i]), 1, i, lines, acc))

\* _best_amount(lines): the value, and the line it was read on.
best_amount(lines) == ScanLines(lines, 1, NoAmount)

NonBlank(line) == line # <<>>

\* [l.strip() for l in text.splitlines() if l.strip()]
SplitLines(text) == SelectSeq(text, NonBlank)

\* The first pass of extract_total_textonly from line i on: the first line
\* with a total keyword, not a payment line, that has an amount on it or, if
\* it has none, on the next line when that is not a payment line.
RECURSIVE KeywordPass(_, _)
KeywordPass(lines, i) ==
    IF i > Len(lines) THEN NoAmount
    ELSE IF is_low_priority_line(lines[i]) THEN KeywordPass(lines, i + 1)
    ELSE IF HasWordIn(lines[i], TotalKeyWords)
    THEN IF AmountsOfLine(lines[i]) # <<>>
         THEN [has |-> TRUE, score |-> 0, val |-> AmountsOfLine(lines[i])[1], line |-> i]
         ELSE IF /\ i + 1 <= Len(lines)
                 /\ ~is_low_priority_line(lines[i + 1])
                 /\ AmountsOfLine(lines[i + 1]) # <<>>
              THEN [has |-> TRUE, score |-> 0, val |-> AmountsOfLine(lines[i + 1])[1],
                    line |-> i + 1]
              ELSE KeywordPass(lines, i + 1)
    ELSE KeywordPass(lines, i + 1)

\* extract_total_textonly(text): the amount found (has, val) and its line.
extract_total_textonly(text) ==
    LET lines == SplitLines(text)
        kw == KeywordPass(lines, 1)
    IN  IF kw.has THEN kw ELSE best_amount(lines)

----------------------------------------------------------------------------
(* parser.py: extract_total_layout *)

\* re.sub(r"[^0-9.,]", "", text) of a word, character by character.
Cleaned(word) ==
    CASE word = "1,234.56" -> <<"1", ",", "2", "3", "4", ".", "5", "6">>
      [] word = "2,000.00" -> <<"2", ",", "0", "0", "0", ".", "0", "0">>
      [] word = "-5.00"    -> <<"5", ".", "0", "0">>
      [] word = "120.00"   -> <<"1", "2", "0", ".", "0", "0">>
      [] word = "450.00"   -> <<"4", "5", "0", ".", "0", "0">>
      [] word = "450"      -> <<"4", "5", "0">>
      [] OTHER             -> <<>>

\* any(ch.isdigit() for ch in text)
HasDigit(word) == \E k \in 1..Len(Cleaned(word)) : Cleaned(word)[k] \notin {".", ","}

\* match.group(1) of the matches of _def_amt in a word, cleaned the same way:
\* every amount word of the model holds one match, its own digits.
MatchTargets(word) == IF AmountsIn(word) = <<>> THEN <<>> ELSE <<Cleaned(word)>>

IsPrefix(p, q) == Len(p) <= Len(q) /\ SubSeq(q, 1, Len(p)) = p

\* A word dict is kept when its text is not blank and its numeric fields
\* convert (w.ok); width and height are raised to at least 1.
\* A token intake without the try/except around the conversions: every word
\* with a text would become a token.
ValidToken_Unguarded(w) == w.text # ""

ValidToken(w) == w.text # "" /\ w.ok

Token(w) ==
    [text |-> w.text, conf |-> w.conf, left |-> w.left, top |-> w.top,
     width |-> Max2(w.width, 1), height |-> Max2(w.height, 1),
     right |-> w.left + Max2(w.width, 1), bottom |-> w.top + Max2(w.height, 1),
     block_num |-> w.block_num, par_num |-> w.par_num, line_num |-> w.line_num]

RECURSIVE Tokens(_)
Tokens(ws) ==
    IF ws = <<>> THEN <<>>
    ELSE IF ValidToken(Head(ws)) THEN <<Token(Head(ws))>> \o Tokens(Tail(ws))
    ELSE Tokens(Tail(ws))

LineKey(t) == <<t.block_num, t.par_num, t.line_num>>

InSeq(x, sq) == \E k \in 1..Len(sq) : sq[k] = x

\* The keys of line_map in insertion order.
RECURSIVE LineKeys(_, _)
LineKeys(toks, seen) ==
    IF toks = <<>> THEN seen
    ELSE IF InSeq(LineKey(Head(toks)), seen) THEN LineKeys(Tail(toks), seen)
    ELSE LineKeys(Tail(toks), Append(seen, LineKey(Head(toks))))

TokensOfKey(toks, key) == SelectSeq(toks, LAMBDA t : LineKey(t) = key)

\* min, max and sum of a non-empty sequence of integers.
RECURSIVE SeqMin(_)
SeqMin(sq) == IF Len(sq) = 1 THEN sq[1] ELSE Min2(Head(sq), SeqMin(Tail(sq)))

RECURSIVE SeqMax(_)
SeqMax(sq) == IF Len(sq) = 1 THEN sq[1] ELSE Max2(Head(sq), SeqMax(Tail(sq)))

RECURSIVE SeqSum(_)
SeqSum(sq) == IF sq = <<>> THEN 0 ELSE Head(sq) + SeqSum(Tail(sq))

\* t[f] for t in toks
Field(toks, f) == [k \in 1..Len(toks) |-> toks[k][f]]

\* (a1, a2) < (b1, b2) on tuples.
PairLess(a, b) == a[1] < b[1] \/ (a[1] = b[1] /\ a[2] < b[2])

\* sorted(seq, key=...) is stable: an item goes after the items whose key is
\* not greater.  The items are records [key, item] with a pair as key.
RECURSIVE InsertSorted(_, _)
InsertSorted(sorted, x) ==
    IF sorted = <<>> THEN <<x>>
    ELSE IF PairLess(x.key, Head(sorted).key) THEN <<x>> \o sorted
         ELSE <<Head(sorted)>> \o InsertSorted(Tail(sorted), x)

RECURSIVE StableSort(_)
StableSort(sq) ==
    IF sq = <<>> THEN <<>>
    ELSE InsertSorted(StableSort(SubSeq(sq, 1, Len(sq) - 1)), sq[Len(sq)])

Items(sq) == [k \in 1..Len(sq) |-> sq[k].item]

\* ordered_keys: the line keys by (min top, min left) of their tokens.
OrderedKeys(toks) ==
    LET keys == LineKeys(toks, <<>>)
    IN  Items(StableSort([k \in 1..Len(keys) |->
            [key |-> <<SeqMin(Field(TokensOfKey(toks, keys[k]), "top")),
                       SeqMin(Field(TokensOfKey(toks, keys[k]), "left"))>>,
             item |-> keys[k]]]))

\* sorted(line_map[key], key=lambda t: t["left"])
SortByLeft(toks) ==
    Items(StableSort([k \in 1..Len(toks) |-> [key |-> <<toks[k].left, 0>>, item |-> toks[k]]]))

RECURSIVE TextsOf(_)
TextsOf(toks) == IF toks = <<>> THEN <<>> ELSE <<Head(toks).text>> \o TextsOf(Tail(toks))

RECURSIVE TotalCenters(_)
TotalCenters(toks) ==
    IF toks = <<>> THEN <<>>
    ELSE (IF Head(toks).text \in TotalKeyWords
          THEN <<2 * Head(toks).left + Head(toks).width>> ELSE <<>>)
         \o TotalCenters(Tail(toks))

\* One entry of line_infos.  Coordinates of centres are doubled (x_mid2 is
\* 2 * x_mid) so that they stay integers.
LineInfo(toks, key, idx) ==
    LET lt == SortByLeft(TokensOfKey(toks, key))
    IN  [index |-> idx,
         text |-> TextsOf(lt),
         tokens |-> lt,
         y_top |-> SeqMin(Field(lt, "top")),
         y_bottom |-> SeqMax(Field(lt, "bottom")),
         y_mid2 |-> SeqMin(Field(lt, "top")) + SeqMax(Field(lt, "bottom")),
         x_mid2 |-> SeqMin(Field(lt, "left")) + SeqMax(Field(lt, "right")),
         total_centers2 |-> TotalCenters(lt)]

LineInfos(toks) ==
    LET keys == OrderedKeys(toks)
    IN  [k \in 1..Len(keys) |-> LineInfo(toks, keys[k], k - 1)]

\* 2 * statistics.median(all_heights)
Median2(toks) ==
    LET hs == Items(StableSort([k \in 1..Len(toks) |->
                  [key |-> <<toks[k].height, 0>>, item |-> toks[k]]]))
        n == Len(hs)
    IN  IF n % 2 = 1 THEN 2 * hs[(n + 1) \div 2].height
        ELSE hs[n \div 2].height + hs[n \div 2 + 1].height

\* _tokens_for_amount(line_tokens, match_str)
RECURSIVE SelectTokens(_, _, _, _)
SelectTokens(lt, acc, selected, target) ==
    IF lt = <<>> THEN selected
    ELSE LET cleaned == Cleaned(Head(lt).text)
             candidate == acc \o cleaned
         IN  IF cleaned = <<>> THEN SelectTokens(Tail(lt), acc, selected, target)
             ELSE IF IsPrefix(candidate, target)
                  THEN IF candidate = target THEN Append(selected, Head(lt))
                       ELSE SelectTokens(Tail(lt), candidate, Append(selected, Head(lt)), target)
                  ELSE SelectTokens(Tail(lt), acc, selected, target)

tokens_for_amount(lt, target) ==
    LET DigitTokens == SelectSeq(lt, LAMBDA t : HasDigit(t.text))
        selected == SelectTokens(lt, <<>>, <<>>, target)
    IN  IF target = <<>> THEN DigitTokens
        ELSE IF selected = <<>> THEN DigitTokens ELSE selected

\* One entry of candidates, for the k-th match of word j of the line.
LayoutCandidate(info, value, target) ==
    LET subset == tokens_for_amount(info.tokens, target)
        left == SeqMin(Field(subset, "left"))
        right == SeqMax(Field(subset, "right"))
        top == SeqMin(Field(subset, "top"))
        bottom == SeqMax(Field(subset, "bottom"))
    IN  [value |-> value,
         line |-> info,
         bbox_width |-> right - left,
         center_x2 |-> left + right,
         center_y2 |-> top + bottom,
         height_sum |-> SeqSum(Field(subset, "height")),
         conf_sum |-> SeqSum(Field(subset, "conf")),
         count |-> Len(subset)]

RECURSIVE WordCandidates(_, _, _)
WordCandidates(info, word, k) ==
    IF k > Len(AmountsIn(word)) THEN <<>>
    ELSE (IF tokens_for_amount(info.tokens, MatchTargets(word)[k]) = <<>> THEN <<>>
          ELSE <<LayoutCandidate(info, AmountsIn(word)[k], MatchTargets(word)[k])>>)
         \o WordCandidates(info, word, k + 1)

RECURSIVE LineCandidates(_, _)
LineCandidates(info, j) ==
    IF j > Len(info.text) THEN <<>>
    ELSE WordCandidates(info, info.text[j], 1) \o LineCandidates(info, j + 1)

RECURSIVE LayoutCandidates(_, _)
LayoutCandidates(infos, i) ==
    IF i > Len(infos) THEN <<>>
    ELSE LineCandidates(infos[i], 1) \o LayoutCandidates(infos, i + 1)

\* Scores of the layout mode are scaled by LayoutScale.
LayoutScale == 6 * 100

\* The base value of a keyword line at index distance d.
ProximityBase(d) ==
    CASE d = 0 -> 6 * LayoutScale
      [] d = 1 -> (45 * LayoutScale) \div 10
      [] d = 2 -> 3 * LayoutScale
      [] OTHER -> Max2(0, 3 * LayoutScale - (7 * d * LayoutScale) \div 10)

\* The proximity of candidate c to keyword line t.
Proximity(c, t, median2) ==
    LET centers == IF t.total_centers2 = <<>> THEN <<t.x_mid2>> ELSE t.total_centers2
        horiz2 == SeqMin([k \in 1..Len(centers) |-> Abs(c.center_x2 - centers[k])])
        denom2 == Max2(2 * c.bbox_width, median2)
    IN  ProximityBase(Abs(c.line.index - t.index))
        - Min2((Abs(c.center_y2 - t.y_mid2) * LayoutScale) \div median2, 4 * LayoutScale)
        - Min2((horiz2 * LayoutScale) \div denom2, 4 * LayoutScale)

\* The position bonus of _candidate_score for line index idx of line_count.
PositionBonus(idx, line_count) ==
    IF line_count > 1
    THEN Max2(0, (22 * LayoutScale * (line_count - 1 - idx)) \div (10 * (line_count - 1)))
    ELSE 0

\* A score that would look at the position of the line only.
candidate_score_PositionOnly(c, infos, median2) == PositionBonus(c.line.index, Len(infos))

\* _candidate_score(cand)
candidate_score(c, infos, median2) ==
    LET line == c.line
        tot_lines == SelectSeq(infos, LAMBDA info : HasWordIn(info.text, TotalKeyWords))
        conf == c.conf_sum \div c.count
    IN    (12 * (line_totalish_score(line.text) \div (TextScale \div LayoutScale))) \div 10
        + line_currency_score(line.text) \div (TextScale \div LayoutScale)
        + (Min2(conf, 95) * LayoutScale) \div 25
        + (IF 20 * c.height_sum > 11 * median2 * c.count
           THEN Min2(((2 * c.height_sum - median2 * c.count) * LayoutScale)
                        \div (median2 * c.count),
                     (25 * LayoutScale) \div 10)
           ELSE 0)
        + PositionBonus(line.index, Len(infos))
        + (IF tot_lines # <<>>
           THEN Max2(-5 * LayoutScale,
                     SeqMax([k \in 1..Len(tot_lines) |-> Proximity(c, tot_lines[k], median2)]))
           ELSE 0)
        - (IF is_low_priority_line(line.text) THEN 4 * LayoutScale ELSE 0)

\* The candidates of a token list, each with its key in
\* max(candidates, key=_candidate_score) and the index of its line.
ScoredCandidates(ws) ==
    LET toks == Tokens(ws)
        infos == LineInfos(toks)
        median2 == Median2(toks)
        cands == LayoutCandidates(infos, 1)
    IN  [k \in 1..Len(cands) |->
            [value |-> cands[k].value, line |-> cands[k].line.index + 1,
             score |-> candidate_score(cands[k], infos, median2)]]

\* A selection that would take the last candidate whatever its score.
MaxCandidate_Last(sc, k, b) == Len(sc)

\* max(candidates, key=_candidate_score): the first candidate no later one beats.
RECURSIVE MaxCandidate(_, _, _)
MaxCandidate(sc, k, b) ==
    IF k > Len(sc) THEN b
    ELSE IF sc[k].score > sc[b].score THEN MaxCandidate(sc, k + 1, k)
         ELSE MaxCandidate(sc, k + 1, b)

\* What a call returns: the amount (has, val), the path that produced it and
\* the line it was read on (a line of the text or a line of the layout).
Found(path, val, line) == [has |-> TRUE, val |-> val, path |-> path, line |-> line]

NotFound(path) == [has |-> FALSE, val |-> 0, path |-> path, line |-> 0]

TextOnly(text) ==
    LET r == extract_total_textonly(text)
    IN  IF r.has THEN Found("textonly", r.val, r.line) ELSE NotFound("textonly")

\* extract_total_layout(words, full_text) from the scored candidates on.
SelectTotal(ws, text, sc) ==
    IF ws = <<>> THEN TextOnly(text)
    ELSE IF Tokens(ws) = <<>> THEN TextOnly(text)
    ELSE IF sc = <<>> THEN TextOnly(text)
    ELSE LET b == MaxCandidate(sc, 2, 1)
         IN  Found("layout", sc[b].value, sc[b].line)

\* extract_total_layout(words, full_text)
extract_total_layout(ws, text) == SelectTotal(ws, text, ScoredCandidates(ws))

----------------------------------------------------------------------------
(* The texts and token lists the amount extractors are called with *)

MaxTextLines == 3

MaxPageLines == 3

MaxJunkLines == 1

TextLabels == {"GRAND TOTAL", "AMOUNT DUE", "CASH TENDERED", "PHP"}

TextAmounts == {"1,234.56", "2,000.00", "-5.00"}

\* A line of text: a label, an amount, a label followed by an amount, two
\* amounts, or a total label and a payment label followed by an amount.
TextLines ==
    {<<l>> : l \in TextLabels} \cup {<<a>> : a \in TextAmounts}
      \cup {<<l, a>> : l \in TextLabels, a \in TextAmounts}
      \cup {<<"1,234.56", "2,000.00">>, <<"GRAND TOTAL", "CASH TENDERED", "2,000.00">>}

SeqsUpTo(S, n) == UNION {[1..k -> S] : k \in 0..n}

Texts == SeqsUpTo(TextLines, MaxTextLines)

\* The text that comes with a token list.
PageTexts == {<<>>, <<<<"GRAND TOTAL", "1,234.56">>, <<"CASH TENDERED", "2,000.00">>>>}

PageLabels == {"", "TOTAL", "CASH"}

PageAmounts == {"", "450.00", "-5.00", "120.00"}

PageHeights == {10, 20}

\* A printed row: a label at the left in the small font, an itemized
\* "120.00" at the right in the small font, or another amount at the right
\* in either font with an optional label at its left.
Rows ==
    {r \in [label : PageLabels, amount : PageAmounts, height : PageHeights] :
        CASE r.amount = ""       -> r.label # "" /\ r.height = 10
          [] r.amount = "120.00" -> r.label = "" /\ r.height = 10
          [] OTHER               -> TRUE}

LineGap == 30

LabelLeft == 0

AmountLeft == 60

WordWidth == 40

WordConf == 90

Word(text, conf, left, top, height, line_num, ok) ==
    [text |-> text, conf |-> conf, left |-> left, top |-> top, width |-> WordWidth,
     height |-> height, block_num |-> 1, par_num |-> 1, line_num |-> line_num, ok |-> ok]

\* The word dicts of row k of n.  A page read bottom-up lists its rows, and
\* the words of a row, in reverse.
RowWords(r, k, n, bottom_up) ==
    LET top == IF bottom_up THEN LineGap * (n - k) ELSE LineGap * (k - 1)
        lab == IF r.label = "" THEN <<>>
               ELSE <<Word(r.label, WordConf, LabelLeft, top, r.height, k, TRUE)>>
        amt == IF r.amount = "" THEN <<>>
               ELSE <<Word(r.amount, WordConf, AmountLeft, top, r.height, k, TRUE)>>
    IN  IF bottom_up THEN amt \o lab ELSE lab \o amt

RECURSIVE PageWords(_, _, _)
PageWords(rows, k, bottom_up) ==
    IF k > Len(rows) THEN <<>>
    ELSE RowWords(rows[k], k, Len(rows), bottom_up) \o PageWords(rows, k + 1, bottom_up)

\* Word dicts that are dropped at intake: blank text, or a numeric field that
\* does not convert.
BlankWord == Word("", WordConf, LabelLeft, 0, 10, 0, TRUE)

BadWord == Word("450.00", WordConf, AmountLeft, 0, 10, 0, FALSE)

\* What may precede the rows of a page: nothing, or dropped word dicts.
JunkWords == {<<>>, <<BlankWord>>, <<BadWord>>, <<BadWord, BlankWord>>}

\* A token list: the rows of a page top-down or bottom-up, or dropped word
\* dicts followed by the rows of a short page.
PageOf(junk, rows, bottom_up) == junk \o PageWords(rows, 1, bottom_up)

IsPage(junk, rows, bottom_up) ==
    junk # <<>> => (Len(rows) <= MaxJunkLines /\ ~bottom_up)

----------------------------------------------------------------------------
(* The callers of the amount extractors *)

NoWhere == [path |-> "", line |-> 0]

TIdle ==
    /\ tpc = "idle"
    /\ called = ""
    /\ words = <<>>
    /\ full_text = <<>>
    /\ scored = <<>>
    /\ amount = None
    /\ amount_from = NoWhere

Returned(r) ==
    /\ amount' = IF r.has THEN Some(r.val) ELSE None
    /\ amount_from' = [path |-> r.path, line |-> r.line]

\* One call extract_total_textonly(text).
ExtractTotalTextonly ==
    /\ tpc = "idle"
    /\ \E text \in Texts :
         /\ full_text' = text
         /\ \E r \in {TextOnly(text)} : Returned(r)
    /\ words' = <<>>
    /\ scored' = <<>>
    /\ called' = "textonly"
    /\ tpc' = "done"
    /\ UNCHANGED <<rvars, dvars, svars, evars>>

\* One call extract_total_layout(words, full_text).
ExtractTotalLayout ==
    /\ tpc = "idle"
    /\ \E rows \in SeqsUpTo(Rows, MaxPageLines), bottom_up \in BOOLEAN, junk \in JunkWords :
         /\ IsPage(junk, rows, bottom_up)
         /\ \E ws \in {PageOf(junk, rows, bottom_up)} :
              \E sc \in {ScoredCandidates(ws)}, text \in PageTexts :
                 /\ words' = ws
                 /\ full_text' = text
                 /\ scored' = sc
                 /\ \E r \in {SelectTotal(ws, text, sc)} : Returned(r)
    /\ called' = "layout"
    /\ tpc' = "done"
    /\ UNCHANGED <<rvars, dvars, svars, evars>>

\* The caller takes the amount.
ExtractReturn ==
    /\ tpc = "done"
    /\ tpc' = "idle"
    /\ called' = ""
    /\ words' = <<>>
    /\ full_text' = <<>>
    /\ scored' = <<>>
    /\ amount' = None
    /\ amount_from' = NoWhere
    /\ UNCHANGED <<rvars, dvars, svars, evars>>

----------------------------------------------------------------------------
(* parser.py: extract_date *)

\* A date as written in a line: three numbers in reading order.  Form "ymd"
\* is what the first pattern of DATE_PATTERNS matches (yyyy-mm-dd), form
\* "dmy" what the second matches (two short numbers, then a four-digit year).
Written(form, a, b, c) == [form |-> form, a |-> a, b |-> b, c |-> c]

DaysIn(y, m) ==
    CASE m \in {4, 6, 9, 11} -> 30
      [] m = 2 -> IF y % 4 = 0 /\ (y % 100 # 0 \/ y % 400 = 0) THEN 29 ELSE 28
      [] OTHER -> 31

Date(y, m, d) == [year |-> y, month |-> m, day |-> d]

\* dtparser.parse(s, dayfirst=True, fuzzy=True) on three numbers: with the
\* year first, the parser reads year, day, month whenever the last number
\* can be a month; with the year last, it reads day, month, year whenever
\* the second number can be a month.
resolve_ymd(w) ==
    IF w.form = "ymd"
    THEN IF w.c <= 12 THEN Date(w.a, w.c, w.b) ELSE Date(w.a, w.b, w.c)
    ELSE IF w.b <= 12 THEN Date(w.c, w.b, w.a) ELSE Date(w.c, w.a, w.b)

\* _try_parse_date(s): None when the numbers read make no calendar date.
try_parse_date(w) ==
    LET dt == resolve_ymd(w)
    IN  IF dt.month \in 1..12 /\ dt.day \in 1..DaysIn(dt.year, dt.month)
        THEN Some(dt) ELSE None

\* A line of the text: whether it holds a date-hint keyword, and the date
\* written in it, if any.
DateLine(hint, date) == [hint |-> hint, date |-> date]

\* The inner loops of extract_date over `look`: the first of the given lines
\* whose pattern match parses.
RECURSIVE FirstParsed(_)
FirstParsed(looks) ==
    IF looks = <<>> THEN None
    ELSE LET iso == IF Head(looks).date = None THEN None
                    ELSE try_parse_date(Val(Head(looks).date))
         IN  IF iso # None THEN iso ELSE FirstParsed(Tail(looks))

\* The loop of extract_date over the hint lines, from line i on.
RECURSIVE ScanHints(_, _)
ScanHints(lines, i) ==
    IF i > Len(lines) THEN None
    ELSE LET iso == IF lines[i].hint
                    THEN FirstParsed(SubSeq(lines, i, Min2(i + 1, Len(lines))))
                    ELSE None
         IN  IF iso # None THEN iso ELSE ScanHints(lines, i + 1)

\* The global fallback of extract_date: per pattern, in the order of
\* DATE_PATTERNS, the first match in the whole text is the only one tried.
GlobalFallback(lines) ==
    LET FirstOf(form) ==
            LET hits == SelectSeq(lines, LAMBDA l : l.date # None /\ Val(l.date).form = form)
            IN  IF hits = <<>> THEN None ELSE try_parse_date(Val(hits[1].date))
    IN  IF FirstOf("ymd") # None THEN FirstOf("ymd") ELSE FirstOf("dmy")

\* extract_date(text)
extract_date(lines) ==
    IF ScanHints(lines, 1) # None THEN ScanHints(lines, 1) ELSE GlobalFallback(lines)

DateYears == {2023, 2024}

\* The calendar dates of the model.
CalendarDates ==
    {dt \in [year : DateYears, month : 1..12, day : 1..31] : dt.day <= DaysIn(dt.year, dt.month)}

\* yyyy-mm-dd of a calendar date.
IsoForm(dt) == Written("ymd", dt.year, dt.month, dt.day)

\* Written dates: the ISO form of every calendar date, and day/month/year
\* and month/day/year spellings, some of them of no calendar date.
WrittenDates ==
    {IsoForm(dt) : dt \in CalendarDates}
        \cup {Written("dmy", a, b, 2024) : a \in {2, 13, 31}, b \in {2, 3, 13}}

DateLines == {DateLine(h, d) : h \in BOOLEAN, d \in Opt(WrittenDates)}

\* The lines that may precede or follow the line of interest.
NeighbourLines ==
    {DateLine(FALSE, None), DateLine(TRUE, None),
     DateLine(FALSE, Some(Written("ymd", 2024, 1, 31))),
     DateLine(FALSE, Some(Written("dmy", 31, 2, 2024)))}

DateTexts ==
    {<<>>} \cup {<<l>> : l \in DateLines}
        \cup {<<l, n>> : l \in DateLines, n \in NeighbourLines}
        \cup {<<n, l>> : n \in NeighbourLines, l \in DateLines}

DIdle ==
    /\ dpc = "idle"
    /\ dtext = <<>>
    /\ ddate = None

\* One call extract_date(text).
ExtractDate ==
    /\ dpc = "idle"
    /\ \E text \in DateTexts :
         /\ dtext' = text
         /\ ddate' = extract_date(text)
    /\ dpc' = "done"
    /\ UNCHANGED <<rvars, tvars, svars, evars>>

\* The caller takes the date.
ExtractDateReturn ==
    /\ dpc = "done"
    /\ dpc' = "idle"
    /\ dtext' = <<>>
    /\ ddate' = None
    /\ UNCHANGED <<rvars, tvars, svars, evars>>

----------------------------------------------------------------------------
(* ph_rules.py: strings *)

\* A string is a sequence of glyphs; a glyph is a one-character string, or a
\* name in angle brackets for a glyph outside ASCII ("<cent>" is the cent
\* sign).  The letters in both cases and the digits, in order, and as sets
\* the capitals, the digits and the glyphs of \w.
Alphabet ==
    [lower |-> <<"a", "b", "c", "d", "e", "f", "g", "h", "i", "j", "k", "l", "m", "n", "o", "p", "q", "r", "s", "t", "u", "v", "w", "x", "y", "z">>,
     upper |-> <<"A", "B", "C", "D", "E", "F", "G", "H", "I", "J", "K", "L", "M", "N", "O", "P", "Q", "R", "S", "T", "U", "V", "W", "X", "Y", "Z">>,
     digit |-> <<"0", "1", "2", "3", "4", "5", "6", "7", "8", "9">>,
     capitals |-> {"A", "B", "C", "D", "E", "F", "G", "H", "I", "J", "K", "L", "M", "N", "O", "P", "Q", "R", "S", "T", "U", "V", "W", "X", "Y", "Z"},
     digits |-> {"0", "1", "2", "3", "4", "5", "6", "7", "8", "9"},
     word |-> {"a", "b", "c", "d", "e", "f", "g", "h", "i", "j", "k", "l", "m", "n", "o", "p", "q", "r", "s", "t", "u", "v", "w", "x", "y", "z", "A", "B", "C", "D", "E", "F", "G", "H", "I", "J", "K", "L", "M", "N", "O", "P", "Q", "R", "S", "T", "U", "V", "W", "X", "Y", "Z", "0", "1", "2", "3", "4", "5", "6", "7", "8", "9", "_"}]

Range(f) == {f[k] : k \in DOMAIN f}

\* The element of a one-element set.  An intermediate value is bound as the
\* element of a one-element set, {F(x) : x \in {e}}, so that e is computed
\* once however often F uses x.
Pick(S) == CHOOSE x \in S : TRUE

\* str.upper() and str.lower(): s with every glyph of `from` replaced by the
\* glyph of `to` at the same place.
Recase(s, from, to) ==
    [k \in 1..Len(s) |->
        IF s[k] \in Range(from) THEN to[CHOOSE i \in 1..Len(from) : from[i] = s[k]] ELSE s[k]]

\* \s of the regular expressions
IsSpace(c) == c \in {" ", "\n", "\t"}

\* \w at place k of s (false outside s)
IsWord(s, k) ==
    /\ k \in 1..Len(s)
    /\ s[k] \in Alphabet.word

\* \b between places k and k + 1 of s
Boundary(s, k) == IsWord(s, k) # IsWord(s, k + 1)

\* s[i:].startswith(w)
StartsAt(s, i, w) == i + Len(w) - 1 <= Len(s) /\ SubSeq(s, i, i + Len(w) - 1) = w

\* w in s
Contains(s, w) == \E i \in 1..(Len(s) - Len(w) + 1) : StartsAt(s, i, w)

\* The least and the greatest of a set of numbers.
Least(S) == CHOOSE k \in S : \A j \in S : k <= j

Greatest(S) == CHOOSE k \in S : \A j \in S : k >= j

\* s.replace(old, new), from place i on: the text up to the next occurrence
\* of old, new in its stead, and the same for the rest.
RECURSIVE Replace(_, _, _, _)
Replace(s, i, old, new) ==
    Pick({IF hits = {} THEN SubSeq(s, i, Len(s))
          ELSE SubSeq(s, i, Least(hits) - 1) \o new
                   \o Replace(s, Least(hits) + Len(old), old, new) :
             hits \in {{p \in i..Len(s) : StartsAt(s, p, old)}}})

\* s.replace(p[k][1], p[k][2]).replace(p[k+1][1], p[k+1][2]) ...
RECURSIVE ReplaceEach(_, _, _)
ReplaceEach(s, pairs, k) ==
    IF k > Len(pairs) THEN s
    ELSE Pick({ReplaceEach(r, pairs, h) :
                  r \in {Replace(s, 1, pairs[k][1], pairs[k][2])}, h \in {k + 1}})

\* The length of the match at place i of \b(l1|l2|...)\b, the alternatives
\* tried in order; 0 when none matches there.
WordMatch(s, i, lits) ==
    IF ~Boundary(s, i - 1) THEN 0
    ELSE Pick({IF hits = <<>> THEN 0 ELSE Len(hits[1]) :
                  hits \in {SelectSeq(lits, LAMBDA w :
                                StartsAt(s, i, w) /\ Boundary(s, i + Len(w) - 1))}})

\* re.sub(r"\b(l1|l2|...)\b", "", s), from place i on
RECURSIVE SubWords(_, _, _)
SubWords(s, i, lits) ==
    Pick({IF hits = {} THEN SubSeq(s, i, Len(s))
          ELSE SubSeq(s, i, Least(hits) - 1)
                   \o SubWords(s, Least(hits) + WordMatch(s, Least(hits), lits), lits) :
             hits \in {{p \in i..Len(s) : WordMatch(s, p, lits) > 0}}})

\* The length of the run of white space of s that starts at place i.
RECURSIVE SpaceRun(_, _)
SpaceRun(s, i) == IF i <= Len(s) /\ IsSpace(s[i]) THEN 1 + SpaceRun(s, i + 1) ELSE 0

\* re.sub(r"\s{n,}", " ", s), from place i on
RECURSIVE CollapseSpaces(_, _, _)
CollapseSpaces(s, i, n) ==
    Pick({IF runs = {} THEN SubSeq(s, i, Len(s))
          ELSE SubSeq(s, i, Least(runs) - 1) \o <<" ">>
                   \o CollapseSpaces(s, Least(runs) + SpaceRun(s, Least(runs)), n) :
             runs \in {{p \in i..Len(s) : SpaceRun(s, p) >= n}}})

\* s.strip()
Strip(s) ==
    Pick({IF kept = {} THEN <<>>
          ELSE SubSeq(s, Least(kept), Greatest(kept)) :
             kept \in {{k \in 1..Len(s) : ~IsSpace(s[k])}}})

----------------------------------------------------------------------------
(* ph_rules.py: normalize_store_name *)

\* The replacements of _sanitize_ocr, in the order they are applied.
GlyphFixes ==
    <<<<<<"<cent>">>, <<"7">>>>,
      <<<<"<euro>">>, <<"C">>>>,
      <<<<"<emdash>">>, <<"-">>>>,
      <<<<"<endash>">>, <<"-">>>>,
      <<<<"_">>, <<"-">>>>,
      <<<<"~">>, <<"-">>>>,
      <<<<"|">>, <<"I">>>>,
      <<<<"0", "/">>, <<"Q">>>>,
      <<<<"E", "L", "E", "W", "E", "M">>, <<"E", "L", "E", "V", "E", "N">>>>,
      <<<<"E", "L", "E", "W", "E", "O", "D">>, <<"E", "L", "E", "V", "E", "N">>>>,
      <<<<"E", "L", "E", "W", "E", "N">>, <<"E", "L", "E", "V", "E", "N">>>>,
      <<<<"E", "L", "E", "V", "E", "N", "N">>, <<"E", "L", "E", "V", "E", "N">>>>>>

\* The place where ELEVEN is to start after a 7 at place p: \s* takes the
\* whole run of white space after the 7.
ElevenAt(u, p) == p + 1 + SpaceRun(u, p + 1)

\* re.sub(r"\b7\s*ELEVEN\b", "7-ELEVEN", u), from place i on
RECURSIVE SevenEleven(_, _)
SevenEleven(u, i) ==
    Pick({IF hits = {} THEN SubSeq(u, i, Len(u))
          ELSE SubSeq(u, i, Least(hits) - 1) \o <<"7", "-", "E", "L", "E", "V", "E", "N">>
                   \o SevenEleven(u, ElevenAt(u, Least(hits)) + 6) :
             hits \in {{p \in i..Len(u) :
                          /\ u[p] = "7" /\ Boundary(u, p - 1)
                          /\ StartsAt(u, ElevenAt(u, p), <<"E", "L", "E", "V", "E", "N">>)
                          /\ Boundary(u, ElevenAt(u, p) + 5)}}})

\* A sanitizer that would not repair glyphs and misspellings.
sanitize_ocr_NoFixes(s) ==
    Pick({Strip(c) : c \in {CollapseSpaces(u, 1, 1) :
                               u \in {Recase(s, Alphabet.lower, Alphabet.upper)}}})

\* _sanitize_ocr(s)
sanitize_ocr(s) ==
    IF s = <<>> THEN s
    ELSE Pick({Strip(c) :
                  c \in {CollapseSpaces(e, 1, 1) :
                  e \in {SevenEleven(g, 1) :
                  g \in {ReplaceEach(u, GlyphFixes, 1) :
                  u \in {Recase(s, Alphabet.lower, Alphabet.upper)}}}}})

\* The alternatives of BREAK_PAT, upper case (the pattern ignores case and
\* is applied to an upper-case string).
BreakWords ==
    <<
      <<"B", "R", "A", "N", "C", "H">>, <<"T", "I", "N">>, <<"V", "A", "T">>, <<"A", "D", "D", "R", "E", "S", "S">>,
      <<"A", "D", "D", ".">>, <<"A", "D", "D">>, <<"T", "E", "L">>, <<"C", "O", "N", "T", "A", "C", "T">>,
      <<"P", "H", "O", "N", "E">>, <<"N", "O", ".">>, <<"N", "O">>, <<"R", "E", "C", "E", "I", "P", "T">>,
      <<"I", "N", "V", "O", "I", "C", "E">>, <<"O", "F", "F", "I", "C", "I", "A", "L">>, <<"C", "A", "S", "H", "I", "E", "R">>, <<"T", "E", "R", "M", "I", "N", "A", "L">>,
      <<"S", "T", "O", "R", "E", " ", "N", "O", ".">>, <<"S", "T", "O", "R", "E", " ", "N", "O">>
    >>

\* The alternatives of the legal-suffix pattern, in the order the regular
\* expression tries them (an optional part first taken, then left out).
LegalSuffixes ==
    <<
      <<"C", "O", "R", "P", "O", "R", "A", "T", "I", "O", "N">>, <<"C", "O", "R", "P">>, <<"I", "N", "C", ".">>, <<"I", "N", "C">>,
      <<"C", "O", ".">>, <<"C", "O">>, <<"C", "O", "M", "P", "A", "N", "Y">>, <<"L", "T", "D", ".">>,
      <<"L", "T", "D">>
    >>

\* s up to the first place of the set `at` (all of s when the set is empty):
\* s.split("\n", 1)[0] and s[:match.start()].
Before(s, at) ==
    IF at = {} THEN s ELSE SubSeq(s, 1, Least(at) - 1)

\* normalize_store_name(store)
normalize_store_name(store) ==
    IF store = None \/ Val(store) = <<>> THEN None
    ELSE Pick({Some(Strip(c)) :
                  c \in {CollapseSpaces(s4, 1, 2) :
                  s4 \in {SubWords(s3, 1, LegalSuffixes) :
                  s3 \in {Before(s2, {k \in 1..Len(s2) : WordMatch(s2, k, BreakWords) > 0}) :
                  s2 \in {Before(s1, {k \in 1..Len(s1) : s1[k] = "\n"}) :
                  s1 \in {sanitize_ocr(Val(store))}}}}}})

----------------------------------------------------------------------------
(* ph_rules.py: the brand dictionary *)

\* ALIAS_MAP, in the order of the dict: <<alias, canonical brand>>
ALIAS_MAP ==
    <<<<<<"G", "O", "L", "D", "E", "N", " ", "A", "R", "C", "H", "E", "S">>,
        <<"M", "C", "D", "O", "N", "A", "L", "D", "'", "S">>>>,
      <<<<"G", "O", "L", "D", "E", "N", " ", "A", "R", "C", "H", "E", "S", " ", "F", "O", "O", "D", " ", "C", "O", "R", "P", "O", "R", "A", "T", "I", "O", "N">>,
        <<"M", "C", "D", "O", "N", "A", "L", "D", "'", "S">>>>,
      <<<<"G", "I", "A", "N", "T", " ", "A", "R", "C", "H", "E", "S">>,
        <<"M", "C", "D", "O", "N", "A", "L", "D", "'", "S">>>>,
      <<<<"G", "I", "A", "N", "T", " ", "A", "R", "C", "H", "E", "S", " ", "F", "O", "O", "D", " ", "C", "O", "R", "P", "O", "R", "A", "T", "I", "O", "N">>,
        <<"M", "C", "D", "O", "N", "A", "L", "D", "'", "S">>>>,
      <<<<"W", "W", "W", ".", "U", "N", "I", "Q", "L", "O", ".", "C", "O", "M">>,
        <<"U", "N", "I", "Q", "L", "O">>>>,
      <<<<"U", "N", "I", "Q", "L", "O", ".", "C", "O", "M">>,
        <<"U", "N", "I", "Q", "L", "O">>>>,
      <<<<"B", "D", "A", " ", "E", "N", "T", "E", "R", "P", "R", "I", "S", "E", "S">>,
        <<"7", "-", "E", "L", "E", "V", "E", "N">>>>>>

\* ALL_SETS: per category the brand set, written in the order of its
\* listing, and the keyword set.
ALL_SETS ==
    <<[cat |-> "Utilities",
       brands |-> <<
             <<"M", "E", "R", "A", "L", "C", "O">>, <<"P", "L", "D", "T">>,
             <<"G", "L", "O", "B", "E">>, <<"S", "M", "A", "R", "T">>,
             <<"C", "O", "N", "V", "E", "R", "G", "E">>, <<"M", "A", "Y", "N", "I", "L", "A", "D">>,
             <<"M", "A", "N", "I", "L", "A", " ", "W", "A", "T", "E", "R">>, <<"S", "K", "Y">>,
             <<"D", "I", "T", "O">>
           >>,
       kw |-> {
             <<"k", "w", "h">>, <<"k", "i", "l", "o", "w", "a", "t", "t">>,
             <<"m", "e", "t", "e", "r">>, <<"a", "c", "c", "o", "u", "n", "t", " ", "n", "o">>,
             <<"s", "e", "r", "v", "i", "c", "e", " ", "p", "e", "r", "i", "o", "d">>, <<"d", "u", "e", " ", "d", "a", "t", "e">>,
             <<"s", "t", "a", "t", "e", "m", "e", "n", "t">>, <<"i", "n", "t", "e", "r", "n", "e", "t">>,
             <<"f", "i", "b", "e", "r">>, <<"d", "s", "l">>,
             <<"p", "o", "s", "t", "p", "a", "i", "d">>, <<"p", "r", "e", "p", "a", "i", "d", " ", "l", "o", "a", "d">>,
             <<"l", "o", "a", "d">>, <<"d", "a", "t", "a", " ", "p", "a", "c", "k">>,
             <<"b", "i", "l", "l", "i", "n", "g">>
           }],
      [cat |-> "Transportation",
       brands |-> <<
             <<"P", "E", "T", "R", "O", "N">>, <<"S", "H", "E", "L", "L">>,
             <<"C", "A", "L", "T", "E", "X">>, <<"S", "E", "A", "O", "I", "L">>,
             <<"E", "A", "S", "Y", "T", "R", "I", "P">>, <<"A", "U", "T", "O", "S", "W", "E", "E", "P">>,
             <<"G", "R", "A", "B">>, <<"A", "N", "G", "K", "A", "S">>,
             <<"N", "L", "E", "X">>, <<"S", "L", "E", "X">>
           >>,
       kw |-> {
             <<"d", "i", "e", "s", "e", "l">>, <<"u", "n", "l", "e", "a", "d", "e", "d">>,
             <<"g", "a", "s", "o", "l", "i", "n", "e">>, <<"p", "u", "m", "p">>,
             <<"l", "i", "t", "e", "r">>, <<"l", "i", "t", "r", "e">>,
             <<"t", "o", "l", "l">>, <<"r", "f", "i", "d">>,
             <<"e", "a", "s", "y", "t", "r", "i", "p">>, <<"a", "u", "t", "o", "s", "w", "e", "e", "p">>,
             <<"p", "l", "a", "t", "e">>, <<"o", "d", "o", "m", "e", "t", "e", "r">>,
             <<"g", "r", "a", "b">>, <<"a", "n", "g", "k", "a", "s">>
           }],
      [cat |-> "Health & Wellness",
       brands |-> <<
             <<"M", "E", "R", "C", "U", "R", "Y", " ", "D", "R", "U", "G">>, <<"W", "A", "T", "S", "O", "N", "S">>,
             <<"S", "O", "U", "T", "H", "S", "T", "A", "R">>, <<"G", "E", "N", "E", "R", "I", "K", "A">>,
             <<"R", "O", "S", "E", " ", "P", "H", "A", "R", "M", "A", "C", "Y">>, <<"T", "H", "E", " ", "G", "E", "N", "E", "R", "I", "C", "S", " ", "P", "H", "A", "R", "M", "A", "C", "Y">>
           >>,
       kw |-> {
             <<"p", "h", "a", "r", "m", "a", "c", "y">>, <<"r", "x">>,
             <<"t", "a", "b", "l", "e", "t">>, <<"c", "a", "p", "s", "u", "l", "e">>,
             <<"m", "g">>, <<"m", "l">>,
             <<"c", "l", "i", "n", "i", "c">>, <<"d", "e", "n", "t", "a", "l">>,
             <<"o", "p", "t", "i", "c", "a", "l">>, <<"l", "a", "b", "o", "r", "a", "t", "o", "r", "y">>,
             <<"p", "r", "e", "s", "c", "r", "i", "p", "t", "i", "o", "n">>
           }],
      [cat |-> "Groceries",
       brands |-> <<
             <<"S", "M", " ", "S", "U", "P", "E", "R", "M", "A", "R", "K", "E", "T">>, <<"S", "M", " ", "H", "Y", "P", "E", "R", "M", "A", "R", "K", "E", "T">>,
             <<"P", "U", "R", "E", "G", "O", "L", "D">>, <<"R", "O", "B", "I", "N", "S", "O", "N", "S", " ", "S", "U", "P", "E", "R", "M", "A", "R", "K", "E", "T">>,
             <<"W", "A", "L", "T", "E", "R", "M", "A", "R", "T">>, <<"L", "A", "N", "D", "E", "R", "S">>,
             <<"S", "&", "R">>, <<"G", "M", "A", "L", "L">>,
             <<"G", "R", "A", "N", "D", "M", "A", "L", "L">>
           >>,
       kw |-> {
             <<"g", "r", "o", "c", "e", "r", "y">>, <<"s", "u", "p", "e", "r", "m", "a", "r", "k", "e", "t">>,
             <<"h", "y", "p", "e", "r", "m", "a", "r", "k", "e", "t">>, <<"m", "a", "r", "k", "e", "t">>,
             <<"m", "i", "n", "i", "m", "a", "r", "t">>, <<"c", "o", "n", "v", "e", "n", "i", "e", "n", "c", "e">>
           }],
      [cat |-> "Food",
       brands |-> <<
             <<"J", "O", "L", "L", "I", "B", "E", "E">>, <<"M", "C", "D", "O", "N", "A", "L", "D">>,
             <<"M", "C", "D", "O", "N", "A", "L", "D", "'", "S">>, <<"K", "F", "C">>,
             <<"C", "H", "O", "W", "K", "I", "N", "G">>, <<"G", "R", "E", "E", "N", "W", "I", "C", "H">>,
             <<"M", "A", "N", "G", " ", "I", "N", "A", "S", "A", "L">>, <<"S", "H", "A", "K", "E", "Y", "'", "S">>,
             <<"B", "O", "N", "C", "H", "O", "N">>, <<"S", "T", "A", "R", "B", "U", "C", "K", "S">>,
             <<"G", "O", "N", "G", " ", "C", "H", "A">>, <<"C", "H", "A", "T", "I", "M", "E">>,
             <<"7", "-", "E", "L", "E", "V", "E", "N">>, <<"M", "I", "N", "I", "S", "T", "O", "P">>,
             <<"F", "A", "M", "I", "L", "Y", "M", "A", "R", "T">>
           >>,
       kw |-> {
             <<"m", "e", "a", "l">>, <<"c", "o", "m", "b", "o">>,
             <<"b", "u", "r", "g", "e", "r">>, <<"f", "r", "i", "e", "s">>,
             <<"c", "h", "i", "c", "k", "e", "n">>, <<"r", "i", "c", "e">>,
             <<"d", "r", "i", "n", "k">>, <<"b", "e", "v", "e", "r", "a", "g", "e">>,
             <<"s", "n", "a", "c", "k">>, <<"d", "i", "n", "e">>,
             <<"t", "a", "k", "e", " ", "o", "u", "t">>
           }]>>

\* The seeds of the string hash of a Python process.  The order in which a
\* set of strings is iterated depends on the seed; it is fixed within a
\* process and differs between processes.
HashSeeds == {0, 1}

\* list(bset) in a process with the given hash seed: the order of the
\* listing under seed 0 and the opposite order under seed 1 stand for the
\* orders the processes may see.
SetOrder(bset, seed) ==
    IF seed = 0 THEN bset ELSE [k \in 1..Len(bset) |-> bset[Len(bset) + 1 - k]]

\* _all_brands_cached()
RECURSIVE all_brands(_, _)
all_brands(k, seed) ==
    IF k > Len(ALL_SETS) THEN <<>>
    ELSE SetOrder(ALL_SETS[k].brands, seed) \o all_brands(k + 1, seed)

\* The category whose brand set holds b: the loops "for cat, brands, _ in
\* ALL_SETS: if b in brands".  None when no set holds b.
CategoryOf(b) ==
    LET holds == SelectSeq(ALL_SETS, LAMBDA e : b \in Range(e.brands))
    IN  IF holds = <<>> THEN None ELSE Some(holds[1].cat)

----------------------------------------------------------------------------
(* ph_rules.py: fuzzy similarity.  A score is a fraction [n, d], d > 0. *)

Frac(n, d) == [n |-> n, d |-> d]

FracLess(x, y) == x.n * y.d < y.n * x.d

FracMax(x, y) == Pick({IF FracLess(p, q) THEN q ELSE p : p \in {x}, q \in {y}})

\* _CHAR_REPLACEMENTS, after the two-character replacements of
\* _apply_char_map
CharMap ==
    <<<<<<"2", "I">>, <<"P", "I">>>>, <<<<"2", "L">>, <<"P", "L">>>>,
      <<<<"0">>, <<"O">>>>, <<<<"1">>, <<"I">>>>, <<<<"2">>, <<"Z">>>>, <<<<"3">>, <<"B">>>>, <<<<"4">>, <<"A">>>>,
      <<<<"5">>, <<"S">>>>, <<<<"6">>, <<"G">>>>, <<<<"7">>, <<"T">>>>, <<<<"8">>, <<"B">>>>, <<<<"9">>, <<"G">>>>,
      <<<<"@">>, <<"A">>>>, <<<<"$">>, <<"S">>>>, <<<<"<euro>">>, <<"E">>>>, <<<<"<pound>">>, <<"L">>>>, <<<<"<cent>">>, <<"C">>>>>>

\* s from the first place of the set `at` on (nothing when the set is
\* empty): re.sub(r"^[^A-Z]+", "", s) with `at` the places of the capitals.
From(s, at) ==
    IF at = {} THEN <<>> ELSE SubSeq(s, Least(at), Len(s))

\* _normalize_for_match(s)
normalize_for_match(s) ==
    Pick({From(alnum, {k \in 1..Len(alnum) : alnum[k] \in Alphabet.capitals}) :
             alnum \in {SelectSeq(u, LAMBDA c : c \in Alphabet.capitals \cup Alphabet.digits) :
             u \in {ReplaceEach(g, CharMap, 1) :
             g \in {sanitize_ocr(s)}}}})

\* One row of the edit-distance table, prev the row above and ca the glyph
\* of a of this row.  Entry j + 1 is the least cost of ending at column j:
\* reach some column h <= j from the row above (by a deletion, or for h > 0
\* by a match or a substitution) and insert the j - h glyphs that follow.
LevRow(prev, ca, b) ==
    SubSeq([j \in 1..(Len(b) + 1) |->
               Least({(j - h) + IF h = 1 THEN prev[1] + 1
                                  ELSE Min2(prev[h] + 1,
                                            prev[h - 1] + IF ca = b[h - 1] THEN 0 ELSE 1) :
                         h \in 1..j})],
           1, Len(b) + 1)

\* _distance(a, b): lev.distance, the edit distance with unit costs, from the
\* row prev of the table on
RECURSIVE distance(_, _, _)
distance(prev, a, b) ==
    IF a = <<>> THEN prev[Len(prev)]
    ELSE Pick({distance(row, rest, b) : row \in {LevRow(prev, a[1], b)}, rest \in {Tail(a)}})

\* The length of the common run of a from place i and b from place j.
RECURSIVE CommonLen(_, _, _, _)
CommonLen(a, i, b, j) ==
    IF i <= Len(a) /\ j <= Len(b) /\ a[i] = b[j] THEN 1 + CommonLen(a, i + 1, b, j + 1) ELSE 0

\* The longest common run of a and b, the earliest in a and then in b among
\* the longest: SequenceMatcher.find_longest_match.  k is its length (0 when
\* a and b share no glyph), i and j its places in a and b.
find_longest_match(a, b) ==
    Pick({IF k = 0 THEN [i |-> 1, j |-> 1, k |-> 0]
          ELSE Pick({[i |-> i, k |-> k,
                      j |-> CHOOSE y \in 1..Len(b) :
                               /\ CommonLen(a, i, b, y) = k
                               /\ \A h \in 1..(y - 1) : CommonLen(a, i, b, h) < k] :
                        i \in {CHOOSE x \in 1..Len(a) :
                                  /\ \E y \in 1..Len(b) : CommonLen(a, x, b, y) = k
                                  /\ \A h \in 1..(x - 1) : \A y \in 1..Len(b) :
                                        CommonLen(a, h, b, y) < k}}) :
             k \in {Greatest({CommonLen(a, x, b, y) : x \in 1..Len(a), y \in 1..Len(b)})}})

\* The sum of the sizes of SequenceMatcher(None, a, b).get_matching_blocks():
\* the longest common run, and the same to its left and to its right.
RECURSIVE Matches(_, _)
Matches(a, b) ==
    IF a = <<>> \/ b = <<>> THEN 0
    ELSE Pick({IF m.k = 0 THEN 0
               ELSE m.k + Pick({Matches(la, lb) : la \in {SubSeq(a, 1, m.i - 1)},
                                                  lb \in {SubSeq(b, 1, m.j - 1)}})
                        + Pick({Matches(ra, rb) : ra \in {SubSeq(a, m.i + m.k, Len(a))},
                                                  rb \in {SubSeq(b, m.j + m.k, Len(b))}}) :
                  m \in {find_longest_match(a, b)}})

\* _sequence_ratio(a, b): SequenceMatcher(None, a, b).ratio()
sequence_ratio(a, b) ==
    IF a = <<>> \/ b = <<>> THEN Frac(0, 1) ELSE Frac(2 * Matches(a, b), Len(a) + Len(b))

\* _partial_ratio(a, b): the best ratio of the shorter string against a
\* window of its length in the longer one.
partial_ratio(a, b) ==
    IF a = <<>> \/ b = <<>> THEN Frac(0, 1)
    ELSE Pick({Pick({CHOOSE r \in ratios : \A o \in ratios : ~FracLess(r, o) :
                        ratios \in {{sequence_ratio(short, window) :
                                       window \in {SubSeq(long, i, i + Len(short) - 1) :
                                                     i \in 1..(Len(long) - Len(short) + 1)}}}}) :
                  short \in {IF Len(a) > Len(b) THEN b ELSE a},
                  long \in {IF Len(a) > Len(b) THEN a ELSE b}})

\* _similarity_score(norm, candidate)
similarity_score(norm, candidate) ==
    Pick({IF a = <<>> \/ b = <<>> THEN Frac(0, 1)
          ELSE Pick({IF 20 * base.n + bonus * base.d >= 20 * base.d THEN Frac(1, 1)
                     ELSE Frac(20 * base.n + bonus * base.d, 20 * base.d) :
                        base \in {FracMax(FracMax(lev_score, sequence_ratio(a, b)),
                                          partial_ratio(a, b)) :
                                     lev_score \in {Frac(denom - distance(row, a, b), denom) :
                                                       denom \in {Max2(Len(a), Len(b))},
                                                       row \in {SubSeq([j \in 1..(Len(b) + 1) |-> j - 1], 1, Len(b) + 1)}}},
                        bonus \in {IF StartsAt(b, 1, a) \/ StartsAt(a, 1, b) THEN 1 ELSE 0}}) :
             a \in {normalize_for_match(norm)}, b \in {normalize_for_match(candidate)}})

\* _best_match(norm, candidates): the loop replaces best only by a strictly
\* higher score, so it ends with the first candidate of the highest score,
\* or with (None, 0.0) when no score is above 0.
best_match(norm, cands) ==
    Pick({Pick({IF first = {} THEN [brand |-> None, score |-> Frac(0, 1)]
                ELSE Pick({[brand |-> Some(cands[c.k]), score |-> c.score] : c \in first}) :
                   first \in {{c \in scored_brands :
                                  /\ FracLess(Frac(0, 1), c.score)
                                  /\ \A o \in scored_brands :
                                        IF o.k < c.k THEN FracLess(o.score, c.score)
                                        ELSE ~FracLess(c.score, o.score)}}}) :
             scored_brands \in {{[k |-> k, score |-> similarity_score(norm, cands[k])] :
                                   k \in 1..Len(cands)}}})

\* min_required of correct_store_name (0.84)
min_required == Frac(21, 25)

Snapped(brand, cat, sc) == [brand |-> brand, cat |-> cat, score |-> sc]

\* correct_store_name(store) from the fuzzy pass on, s the normalized name
fuzzy_pass(s, brands) ==
    Pick({IF ~FracLess(fuzzy.score, min_required) /\ fuzzy.brand # None
             /\ CategoryOf(Val(fuzzy.brand)) # None
          THEN Snapped(fuzzy.brand, CategoryOf(Val(fuzzy.brand)), Some(fuzzy.score))
          ELSE Snapped(None, None, IF fuzzy.brand # None THEN Some(fuzzy.score) ELSE None) :
             fuzzy \in {best_match(s, brands)}})

\* correct_store_name(store) in a process with the given hash seed
correct_store_name(store, seed) ==
    IF store = None \/ Val(store) = <<>> THEN Snapped(None, None, None)
    ELSE Pick({IF norm = None \/ Val(norm) = <<>> THEN Snapped(None, None, None)
               ELSE Pick({IF aliases # <<>>
                          THEN Snapped(Some(aliases[1][2]), CategoryOf(aliases[1][2]),
                                       Some(Frac(1, 1)))
                          ELSE Pick({IF within # <<>>
                                     THEN Snapped(Some(within[1]), CategoryOf(within[1]),
                                                  Some(Frac(1, 1)))
                                     ELSE fuzzy_pass(Val(norm), brands) :
                                        within \in {SelectSeq(brands, LAMBDA b :
                                                       \/ Contains(Val(norm), b)
                                                       \/ Contains(b, Val(norm)))}}) :
                             aliases \in {SelectSeq(ALIAS_MAP, LAMBDA p :
                                             Contains(upper, p[1]) /\ CategoryOf(p[2]) # None) :
                                             upper \in {Recase(Val(norm), Alphabet.lower,
                                                               Alphabet.upper)}},
                             brands \in {all_brands(1, seed)}}) :
                  norm \in {normalize_store_name(store)}})

\* A keyword match that would prefer the last category with a hit.
keyword_match_LastHit(text_low) ==
    Pick({IF hit = <<>> THEN None ELSE Some(hit[Len(hit)].cat) :
             hit \in {SelectSeq(ALL_SETS, LAMBDA e : \E k \in e.kw : Contains(text_low, k))}})

\* _keyword_match(text_low)
keyword_match(text_low) ==
    Pick({IF hit = <<>> THEN None ELSE Some(hit[1].cat) :
             hit \in {SelectSeq(ALL_SETS, LAMBDA e : \E k \in e.kw : Contains(text_low, k))}})

Categorized(cat, by, canon, sc) == [cat |-> cat, by |-> by, canon |-> canon, score |-> sc]

\* rule_category(ocr_text, store) in a process with the given hash seed; the
\* reason is kept as its parts (by "brand" with canon and score, or by
\* "keywords"), by "" standing for None.
rule_category(ocr_text, store, seed) ==
    Pick({IF snap.cat # None THEN Categorized(snap.cat, "brand", snap.brand, snap.score)
          ELSE Pick({IF cat # None THEN Categorized(cat, "keywords", None, None)
                     ELSE Categorized(None, "", None, None) :
                        cat \in {keyword_match(text_low) :
                                    text_low \in {Recase(IF ocr_text = None THEN <<>>
                                                         ELSE Val(ocr_text),
                                                         Alphabet.upper, Alphabet.lower)}}}) :
             snap \in {correct_store_name(store, seed)}})

----------------------------------------------------------------------------
(* The callers of ph_rules.py *)

\* Raw store strings: a header line, and what may follow it.
StoreHeads ==
    {
      <<"J", "O", "L", "L", "I", "B", "E", "E">>, <<"M", "C", "D", "O", "N", "A", "L", "D", "'", "S">>,
      <<"<cent>", "-", "E", "L", "E", "W", "E", "M">>, <<"7", "-", "E", "L", "E", "V", "E", "N", "N", "N">>,
      <<"7", " ", "e", "l", "e", "v", "e", "n">>, <<"G", "O", "L", "D", "E", "N", " ", "A", "R", "C", "H", "E", "S", " ", "F", "O", "O", "D", " ", "C", "O", "R", "P", "O", "R", "A", "T", "I", "O", "N">>,
      <<"U", "N", "I", "Q", "L", "O", ".", "C", "O", "M">>, <<"B", "D", "A", " ", "E", "N", "T", "E", "R", "P", "R", "I", "S", "E", "S">>,
      <<"J", "O", "L", "I", "B", "E", "E">>, <<"S", "T", "A", "R", "B", "U", "X">>,
      <<"M", "A", "L", "L">>, <<"S", "M">>,
      <<"-", "-", "-">>, <<"0", "/">>,
      <<" ">>
    }

StoreTails ==
    {
      <<>>, <<" ", "B", "R", "A", "N", "C", "H", " ", "1", "2", "3">>,
      <<"\n", "M", "A", "K", "A", "T", "I">>, <<" ", "I", "N", "C", ".">>,
      <<" ", "C", "O", ".", " ", "L", "T", "D">>
    }

StoreInputs == {None, Some(<<>>)} \cup {Some(h \o t) : h \in StoreHeads, t \in StoreTails}

\* The stores given to rule_category: the header lines alone, and one header
\* with a branch number.
RuleStores ==
    {None} \cup {Some(h) : h \in StoreHeads}
        \cup {Some(<<"<cent>", "-", "E", "L", "E", "W", "E", "M">> \o <<" ", "B", "R", "A", "N", "C", "H", " ", "1", "2", "3">>)}

\* OCR texts given to rule_category.
OcrTexts ==
    {None} \cup {Some(t) : t \in {
          <<>>, <<"B", "u", "r", "g", "e", "r", " ", "M", "e", "a", "l">>,
          <<"D", "I", "E", "S", "E", "L", " ", "4", "0", " ", "l", "i", "t", "e", "r", ",", " ", "l", "o", "a", "d">>, <<"T", "h", "a", "n", "k", " ", "y", "o", "u">>
        }}

\* The worker processes that serve the requests.
Procs == {1, 2}

NotSnapped == [p \in Procs |-> Snapped(None, None, None)]

SIdle ==
    /\ spc = "idle"
    /\ raw_store = None
    /\ receipt_text = None
    /\ hashseed = [p \in Procs |-> 0]
    /\ normed = None
    /\ snapped = NotSnapped
    /\ category = Categorized(None, "", None, None)

\* The same store string is given to correct_store_name in each process.
CorrectStoreName ==
    /\ spc = "idle"
    /\ \E st \in StoreInputs :
         /\ raw_store' = st
         /\ normed' = normalize_store_name(st)
         /\ \E by_seed \in {{[seed |-> s, snap |-> correct_store_name(st, s)] : s \in HashSeeds}} :
              \E hs \in [Procs -> HashSeeds] :
                 /\ hashseed' = hs
                 /\ snapped' = [p \in Procs |-> (CHOOSE r \in by_seed : r.seed = hs[p]).snap]
    /\ spc' = "snapped"
    /\ UNCHANGED <<receipt_text, category>>
    /\ UNCHANGED <<rvars, tvars, dvars, evars>>

\* One call rule_category(ocr_text, store) in process 1.
RuleCategory ==
    /\ spc = "idle"
    /\ \E st \in RuleStores, tx \in OcrTexts, seed \in HashSeeds :
         /\ raw_store' = st
         /\ receipt_text' = tx
         /\ hashseed' = [p \in Procs |-> seed]
         /\ category' = rule_category(tx, st, seed)
    /\ spc' = "categorized"
    /\ UNCHANGED <<normed, snapped>>
    /\ UNCHANGED <<rvars, tvars, dvars, evars>>

\* The caller takes the result.
StoreReturn ==
    /\ spc # "idle"
    /\ spc' = "idle"
    /\ raw_store' = None
    /\ receipt_text' = None
    /\ hashseed' = [p \in Procs |-> 0]
    /\ normed' = None
    /\ snapped' = NotSnapped
    /\ category' = Categorized(None, "", None, None)
    /\ UNCHANGED <<rvars, tvars, dvars, evars>>

----------------------------------------------------------------------------
(* parser.py: extract_store *)

\* The boilerplate tokens of a receipt header.
SKIP_STORE ==
    {<<"r", "e", "c", "e", "i", "p", "t">>, <<"i", "n", "v", "o", "i", "c", "e">>,
     <<"o", "f", "f", "i", "c", "i", "a", "l">>, <<"s", "a", "l", "e", "s">>,
     <<"o", "r", "#">>, <<"t", "i", "n">>, <<"v", "a", "t">>, <<"p", "o", "s">>,
     <<"c", "a", "s", "h", "i", "e", "r">>, <<"t", "e", "r", "m", "i", "n", "a", "l">>}

\* The number of leading lines extract_store looks at.
StoreLineLimit == 12

IsLetter(c) == c \in Range(Alphabet.lower) \cup Range(Alphabet.upper)

\* _word.search(s): a letter followed by two or more glyphs that are
\* letters, hyphens, ampersands, apostrophes or spaces.
word_search(s) ==
    \E i \in 1..(Len(s) - 2) :
        /\ IsLetter(s[i])
        /\ \A k \in (i + 1)..(i + 2) : IsLetter(s[k]) \/ s[k] \in {"-", "&", "'", " "}

\* s.strip(chars)
StripChars(s, chars) ==
    Pick({IF kept = {} THEN <<>>
          ELSE SubSeq(s, Least(kept), Greatest(kept)) :
             kept \in {{k \in 1..Len(s) : s[k] \notin chars}}})

\* _norm(s)
norm(s) == Strip(CollapseSpaces(s, 1, 2))

\* [l.strip() for l in text.splitlines() if l.strip()]
NonBlankLines(text) ==
    [k \in 1..Len(SelectSeq(text, LAMBDA l : Strip(l) # <<>>)) |->
        Strip(SelectSeq(text, LAMBDA l : Strip(l) # <<>>)[k])]

\* cand of extract_store for a line
StoreCand(line) == StripChars(line, {"-", "<emdash>", ":", "|", " "})

\* The test of extract_store on cand: long enough, free of boilerplate
\* tokens, and wordy.
StoreAccepted(cand) ==
    /\ Len(cand) >= 3
    /\ ~\E tok \in SKIP_STORE : Contains(Recase(cand, Alphabet.upper, Alphabet.lower), tok)
    /\ word_search(cand)

\* extract_store(text)
extract_store(text) ==
    LET lines == NonBlankLines(text)
        head == SubSeq(lines, 1, Min2(StoreLineLimit, Len(lines)))
        hits == {k \in 1..Len(head) : StoreAccepted(StoreCand(head[k]))}
    IN  IF hits = {} THEN None
        ELSE Some(norm(Replace(Replace(StoreCand(head[Least(hits)]), 1, <<"|">>, <<"I">>),
                               1, <<"0", "/">>, <<"Q">>)))

\* The lines of the texts read by extract_store: store names, boilerplate,
\* lines without words, and lines with misread glyphs.
StoreLines ==
    {<<"A", "C", "M", "E">>,
     <<"-", " ", "S", "M", " ", " ", "M", "A", "R", "T", " ", "|">>,
     <<"T", "I", "N", " ", "1", "2">>,
     <<"S", "a", "l", "e", "s">>,
     <<"1", "2", "3">>,
     <<"A", "B">>,
     <<"A", " ", "-", " ", "1">>,
     <<"T", "|", "N", " ", "C", "O">>,
     <<"P", "0", "/", "S", " ", "I", "N", "N">>,
     <<" ", " ">>}

\* The lines a text may start with, repeated.
FillerLines == {<<" ">>, <<"V", "A", "T">>, <<"1", "2">>}

MaxFill == 13

MaxStoreTail == 2

StoreTexts ==
    {[k \in 1..n |-> f] \o tail :
        n \in 0..MaxFill, f \in FillerLines, tail \in SeqsUpTo(StoreLines, MaxStoreTail)}

XIdle ==
    /\ xpc = "idle"
    /\ xtext = <<>>
    /\ xstore = None

\* One call extract_store(text).
ExtractStore ==
    /\ xpc = "idle"
    /\ \E text \in StoreTexts :
         /\ xtext' = text
         /\ xstore' = extract_store(text)
    /\ xpc' = "done"
    /\ UNCHANGED <<rvars, tvars, dvars, svars, avars, jvars>>

\* The caller takes the store.
ExtractStoreReturn ==
    /\ xpc = "done"
    /\ xpc' = "idle"
    /\ xtext' = <<>>
    /\ xstore' = None
    /\ UNCHANGED <<rvars, tvars, dvars, svars, avars, jvars>>

----------------------------------------------------------------------------
(* api.py: the cache of validated tokens *)

\* seconds subtracted from the expiry of a token when its payload is cached
CACHE_GRACE == 10

\* the time to live of an entry without a usable expiry
CACHE_DEFAULT_TTL == 300

\* The bearer tokens presented: each with the exp claim of its payload (None
\* for a payload without one).
BearerTokens ==
    {[id |-> "a", exp |-> Some(8)], [id |-> "b", exp |-> Some(40)],
     [id |-> "c", exp |-> Some(330)], [id |-> "d", exp |-> None]}

TokenIds == {t.id : t \in BearerTokens}

\* The clock stops here.
MaxNow == 340

\* The time that passes between two requests.
ClockSteps == {5, 100}

\* Whether the validation of token t succeeds at the given time: the
\* signature check and the user endpoint both reject an expired token.
TokenValid(t, at) == t.exp = None \/ at < Val(t.exp)

\* _cache_lookup(token): whether the payload is returned, and the cache
\* after the call.
cache_lookup(cache, t, at) ==
    LET entry == cache[t.id]
    IN  IF entry = None THEN [hit |-> FALSE, cache |-> cache]
        ELSE IF Val(entry) > at THEN [hit |-> TRUE, cache |-> cache]
        ELSE [hit |-> FALSE, cache |-> [cache EXCEPT ![t.id] = None]]

\* _cache_store(token, payload): the cache after the call.
cache_store(cache, t, at) ==
    LET ttl == IF t.exp # None THEN Max2(0, Val(t.exp) - at - CACHE_GRACE)
               ELSE CACHE_DEFAULT_TTL
        expires_at == IF ttl > 0 THEN at + ttl ELSE at + CACHE_DEFAULT_TTL
    IN  [cache EXCEPT ![t.id] = Some(expires_at)]

AInit ==
    /\ now = 0
    /\ user_cache = [i \in TokenIds |-> None]
    /\ served = None

Answer(t, how) == Some([token |-> t.id, exp |-> t.exp, at |-> now, how |-> how])

\* One request through get_current_user with bearer token t: the cached
\* payload when the lookup hits, else the validation of the token and, when
\* it succeeds, the storing of its payload; a token that fails validation is
\* answered 401.
GetCurrentUser ==
    /\ \E t \in BearerTokens :
         \E looked \in {cache_lookup(user_cache, t, now)} :
            IF looked.hit
            THEN /\ served' = Answer(t, "cached")
                 /\ user_cache' = looked.cache
            ELSE IF TokenValid(t, now)
            THEN /\ served' = Answer(t, "validated")
                 /\ user_cache' = cache_store(looked.cache, t, now)
            ELSE /\ served' = Answer(t, "rejected")
                 /\ user_cache' = looked.cache
    /\ now' = now
    /\ UNCHANGED <<rvars, tvars, dvars, svars, xvars, jvars>>

\* Time passes; the answer of the last request has been delivered.
Tick ==
    /\ \E d \in ClockSteps :
         /\ now + d <= MaxNow
         /\ now' = now + d
    /\ served' = None
    /\ UNCHANGED user_cache
    /\ UNCHANGED <<rvars, tvars, dvars, svars, xvars, jvars>>

----------------------------------------------------------------------------
(* api.py: the job registry *)

\* The receipts uploaded are numbered in the order of their upload; the
\* number stands for the job id.
JobIds == {1, 2, 3}

\* The number of jobs the registry keeps before it prunes (200 in the
\* source; the registry of the model is smaller).
MAX_JOBS == 2

Job(status, at, res, err) == [status |-> status, updated_at |-> at, result |-> res, error |-> err]

InRegistry(J) == {j \in JobIds : J[j] # None}

\* _prune_jobs_locked(): the registry after the call.
prune_jobs_locked(J) ==
    IF Cardinality(InRegistry(J)) <= MAX_JOBS THEN J
    ELSE LET removable == {j \in InRegistry(J) : Val(J[j]).status \in {"completed", "failed"}}
             excess == Cardinality(InRegistry(J)) - MAX_JOBS
             \* the place of job j in removable sorted by updated_at
             Place(j) == Cardinality({k \in removable : Val(J[k]).updated_at < Val(J[j]).updated_at})
         IN  [j \in JobIds |-> IF j \in removable /\ Place(j) < excess THEN None ELSE J[j]]

\* _register_job(user_id, filename): the registry after the call.
register_job(J, j, at) ==
    prune_jobs_locked([J EXCEPT ![j] = Some(Job("queued", at, None, None))])

\* _update_job(job_id, **changes): the registry after the call.
update_job(J, j, status, res, err, at) ==
    IF J[j] = None THEN J
    ELSE [J EXCEPT ![j] = Some(Job(status, at, res, err))]

----------------------------------------------------------------------------
(* api.py: _process_job and _process_receipt_pipeline *)

\* The OCR providers.  The first three run as tasks created at the start of
\* the pipeline; google_vision is called, when switched on and needed, after
\* the three have been awaited.
Providers == {"paddle_vl", "tesseract", "ocr_space", "google_vision"}

TaskProviders == {"paddle_vl", "tesseract", "ocr_space"}

\* The position of a job without a task, and the state of a provider that
\* was not started.
NoWork == [pc |-> "none", prov |-> [p \in Providers |-> "none"], resolved |-> 0, exc |-> None]

JInit ==
    /\ uploads = 0
    /\ clock = 0
    /\ jobs = [j \in JobIds |-> None]
    /\ work = [j \in JobIds |-> NoWork]

Core == <<rvars, tvars, dvars, svars, xvars, avars>>

\* upload_receipt: the job is registered (and the registry pruned) and the
\* task of _process_job is created.
UploadReceipt ==
    /\ uploads < Cardinality(JobIds)
    /\ uploads' = uploads + 1
    /\ clock' = clock + 1
    /\ jobs' = register_job(jobs, uploads + 1, clock + 1)
    /\ work' = [work EXCEPT ![uploads + 1].pc = "created"]
    /\ UNCHANGED <<enabled, Core>>

\* _process_job, up to the call of the pipeline: the job is processing.
StartJob(j) ==
    /\ work[j].pc = "created"
    /\ clock' = clock + 1
    /\ jobs' = update_job(jobs, j, "processing", None, None, clock + 1)
    /\ work' = [work EXCEPT ![j].pc = "begin"]
    /\ UNCHANGED <<enabled, uploads, Core>>

\* _process_receipt_pipeline up to its first await: one task per provider
\* switched on.  (The uploaded file is written by upload_receipt and never
\* deleted by the program, so the check for a missing file passes.)
FanOut(j) ==
    /\ work[j].pc = "begin"
    /\ work' = [work EXCEPT ![j].pc = "paddle_vl",
                            ![j].prov = [p \in Providers |->
                                IF p \in TaskProviders \cap enabled THEN "running" ELSE "none"]]
    /\ UNCHANGED <<enabled, uploads, clock, jobs, Core>>

\* The task of provider p ends: its strategy returns a payload or raises.
ProviderSettles(j, p) ==
    /\ p \in TaskProviders
    /\ work[j].prov[p] = "running"
    /\ \E outcome \in {"returned", "raised"} :
         work' = [work EXCEPT ![j].prov[p] = outcome]
    /\ UNCHANGED <<enabled, uploads, clock, jobs, Core>>

\* await asyncio.wait_for(paddle_task, timeout=60): the task has ended (an
\* exception of it is logged), or the 60 seconds pass and it is cancelled.
AwaitPaddle(j) ==
    /\ work[j].pc = "paddle_vl"
    /\ \/ /\ work[j].prov["paddle_vl"] # "running"
          /\ work' = [work EXCEPT ![j].pc = "tesseract"]
       \/ /\ work[j].prov["paddle_vl"] = "running"
          /\ work' = [work EXCEPT ![j].pc = "tesseract", ![j].prov["paddle_vl"] = "cancelled"]
    /\ UNCHANGED <<enabled, uploads, clock, jobs, Core>>

\* await tess_task: resumes when the task has ended; an exception of it is
\* logged.
AwaitTesseract(j) ==
    /\ work[j].pc = "tesseract"
    /\ work[j].prov["tesseract"] # "running"
    /\ work' = [work EXCEPT ![j].pc = "ocr_space"]
    /\ UNCHANGED <<enabled, uploads, clock, jobs, Core>>

\* await ocr_space_task: resumes when the task has ended; an exception of it
\* is logged.
AwaitOcrSpace(j) ==
    /\ work[j].pc = "ocr_space"
    /\ work[j].prov["ocr_space"] # "running"
    /\ work' = [work EXCEPT ![j].pc = "google_vision"]
    /\ UNCHANGED <<enabled, uploads, clock, jobs, Core>>

\* The call of google_vision, made when the provider is switched on and a
\* field is still missing or the confidence of tesseract is low.
CallVision(j) ==
    /\ work[j].pc = "google_vision"
    /\ \E need_vision \in BOOLEAN :
         IF "google_vision" \in enabled /\ need_vision
         THEN work' = [work EXCEPT ![j].pc = "vision_wait", ![j].prov["google_vision"] = "running"]
         ELSE work' = [work EXCEPT ![j].pc = "resolve"]
    /\ UNCHANGED <<enabled, uploads, clock, jobs, Core>>

\* google_vision_text ends: it returns a payload, or _get_client() raises;
\* the await of the pipeline stands in no try block, so the exception leaves
\* the pipeline.
VisionSettles(j) ==
    /\ work[j].pc = "vision_wait"
    /\ \/ work' = [work EXCEPT ![j].pc = "resolve", ![j].prov["google_vision"] = "returned"]
       \/ work' = [work EXCEPT ![j].pc = "raised", ![j].prov["google_vision"] = "raised",
                               ![j].exc = Some("google_vision")]
    /\ UNCHANGED <<enabled, uploads, clock, jobs, Core>>

\* resolve_fields is called and the receipt is stored: insert_receipt
\* returns, or raises.
ResolveAndStore(j) ==
    /\ work[j].pc = "resolve"
    /\ \E stored \in BOOLEAN :
         work' = [work EXCEPT ![j].resolved = @ + 1,
                              ![j].pc = IF stored THEN "returned" ELSE "raised",
                              ![j].exc = IF stored THEN None ELSE Some("insert_receipt")]
    /\ UNCHANGED <<enabled, uploads, clock, jobs, Core>>

\* _process_job after the pipeline: the job is completed with the result,
\* or failed with the text of the exception.
FinishJob(j) ==
    /\ work[j].pc \in {"returned", "raised"}
    /\ clock' = clock + 1
    /\ jobs' = IF work[j].pc = "returned"
               THEN update_job(jobs, j, "completed", Some("receipt"), None, clock + 1)
               ELSE update_job(jobs, j, "failed", None, work[j].exc, clock + 1)
    /\ work' = [work EXCEPT ![j].pc = "done"]
    /\ UNCHANGED <<enabled, uploads, Core>>

----------------------------------------------------------------------------
(* Specifications *)

CoreIdle == RIdle /\ TIdle /\ DIdle /\ SIdle /\ XIdle /\ AInit

Init == CoreIdle /\ JInit /\ enabled = Providers

\* The reconciliation of one receipt's readings.
Next == ResolveFields \/ ResolveReturn

Spec == Init /\ [][Next]_vars

\* The extraction of the amount from a text or a token list.
NextTotal == ExtractTotalTextonly \/ ExtractTotalLayout \/ ExtractReturn

SpecTotal == Init /\ [][NextTotal]_vars

\* The extraction of the date from a text.
NextDate == ExtractDate \/ ExtractDateReturn

SpecDate == Init /\ [][NextDate]_vars

\* The normalisation and the categorisation of a store name.
NextBrand == CorrectStoreName \/ RuleCategory \/ StoreReturn

SpecBrand == Init /\ [][NextBrand]_vars

\* The core operations called one at a time, in any order.
AllIdle == rpc = "idle" /\ tpc = "idle" /\ dpc = "idle" /\ spc = "idle"

NextCore ==
    \/ AllIdle /\ ExtractTotalTextonly
    \/ AllIdle /\ ExtractTotalLayout
    \/ AllIdle /\ ExtractDate
    \/ AllIdle /\ CorrectStoreName
    \/ AllIdle /\ RuleCategory
    \/ AllIdle /\ ResolveFields
    \/ ExtractReturn
    \/ ExtractDateReturn
    \/ StoreReturn
    \/ ResolveReturn

SpecCore == Init /\ [][NextCore]_vars

\* The extraction of the store name from a text.
NextStore == ExtractStore \/ ExtractStoreReturn

SpecStore == Init /\ [][NextStore]_vars

\* The requests authenticated by bearer token, as time passes.
NextAuth == GetCurrentUser \/ Tick

SpecAuth == Init /\ [][NextAuth]_vars

\* The steps of the task of one job.
JobStep(j) ==
    \/ StartJob(j)
    \/ FanOut(j)
    \/ AwaitPaddle(j)
    \/ AwaitTesseract(j)
    \/ AwaitOcrSpace(j)
    \/ CallVision(j)
    \/ VisionSettles(j)
    \/ ResolveAndStore(j)
    \/ FinishJob(j)

\* One receipt through the pipeline, under every setting of the flags.
InitPipeline == CoreIdle /\ JInit /\ enabled \in SUBSET Providers

NextPipeline ==
    \/ uploads = 0 /\ UploadReceipt
    \/ \E j \in JobIds : JobStep(j)
    \/ \E j \in JobIds, p \in TaskProviders : ProviderSettles(j, p)

SpecPipeline == InitPipeline /\ [][NextPipeline]_vars

\* The event loop runs every task that can take a step, and OCR.space
\* answers or fails within the timeout of its HTTP client; no such bound
\* exists for the other providers.
Fairness ==
    \A j \in JobIds :
        /\ WF_vars(JobStep(j) /\ ~VisionSettles(j))
        /\ WF_vars(ProviderSettles(j, "ocr_space"))

FairPipeline == SpecPipeline /\ Fairness

\* Several receipts, their tasks interleaved, with tesseract and
\* google_vision switched on.
InitJobs == CoreIdle /\ JInit /\ enabled = {"tesseract", "google_vision"}

NextJobs ==
    \/ UploadReceipt
    \/ \E j \in JobIds : JobStep(j)
    \/ \E j \in JobIds, p \in TaskProviders : ProviderSettles(j, p)

SpecJobs == InitJobs /\ [][NextJobs]_vars

FairJobs == SpecJobs /\ Fairness

----------------------------------------------------------------------------
(* Claims about resolve_fields (specification Spec) *)

Called == rpc = "done"

BestCand == candidates[best]

Others == (1..Len(candidates)) \ {best}

\* Agreement of two candidates on all three fields, as the design states it:
\* stores non-empty and equal ignoring case and surrounding blanks, totals
\* present and at most 0.01 (one centavo) apart, dates the same non-null string.
AgreeOnAll(c, d) ==
    /\ ~IsNone(c.store) /\ ~IsNone(d.store)
    /\ StripUpper(Val(c.store)) = StripUpper(Val(d.store))
    /\ ~IsNone(c.total) /\ ~IsNone(d.total)
    /\ Abs(Val(c.total) - Val(d.total)) <= 1
    /\ ~IsNone(c.date) /\ c.date = d.date

\* C1: source_tag is "consensus" if and only if some candidate other than the
\* selected best agrees with the best on store, total (within 0.01) and date
\* at once; otherwise source_tag is the best candidate's source name.
C1_ConsensusIffAgreesWithBest ==
    Called =>
        /\ (result.source_tag = "consensus")
              <=> (\E i \in Others : AgreeOnAll(candidates[i], BestCand))
        /\ result.source_tag # "consensus" => result.source_tag = BestCand.source

HasField(f) == \E i \in 1..Len(candidates) : ~IsNone(candidates[i][f])

IsExampleC2 ==
    /\ Len(candidates) = 2
    /\ candidates[1].source = "tesseract"
    /\ candidates[1].store = None
    /\ candidates[1].total = Some(10000)
    /\ candidates[1].date = Some("2024-01-01")
    /\ candidates[2].source = "vision"
    /\ candidates[2].store = Some("ACME")
    /\ candidates[2].total = None
    /\ candidates[2].date = None

\* C2: back-fill maximises coverage: a field that some candidate has is never
\* null in the result, and A {null, 100.00, 2024-01-01, priority 0} with
\* B {ACME, null, null, priority 2} resolves to {ACME, 100.00, 2024-01-01}.
C2_BackFillCoverage ==
    Called =>
        /\ \A f \in Fields : HasField(f) => ~IsNone(result[f])
        /\ IsExampleC2 =>
              /\ result.store = Some("ACME")
              /\ result.total = Some(10000)
              /\ result.date = Some("2024-01-01")

C2_Witness ==
    /\ Called
    /\ IsExampleC2
    /\ best = 1
    /\ result.store = Some("ACME")

\* s >= t on floats.
FloatGe(s, t) == ~s.nan /\ ~t.nan /\ s.v >= t.v

\* C3: the selected best has the maximum score among all candidates, and among
\* candidates sharing the maximum the earliest in the order tesseract,
\* ocr_space, vision, paddle_vl is selected.
C3_BestHasMaxScore ==
    Called =>
        \A i \in Others :
            /\ FloatGe(score(BestCand), score(candidates[i]))
            /\ score(candidates[i]) = score(BestCand) => best < i

\* The candidates that have field f, and the most trusted of them.
Holders(f) == {i \in 1..Len(candidates) : ~IsNone(candidates[i][f])}

MostTrusted(f) ==
    CHOOSE i \in Holders(f) : \A j \in Holders(f) : candidates[i].priority <= candidates[j].priority

Expected(f) ==
    IF ~IsNone(BestCand[f]) THEN BestCand[f]
    ELSE IF Holders(f) = {} THEN None
    ELSE candidates[MostTrusted(f)][f]

\* C4: a field the best candidate has is returned unchanged; a field it lacks
\* takes the value of the candidate with the smallest priority number among
\* those that have it; the three fields are filled independently.
C4_BackFillByPriority ==
    Called => \A f \in Fields : result[f] = Expected(f)

C4_Witness ==
    /\ Called
    /\ ~BestCand.confidence.nan
    /\ IsNone(BestCand.store) /\ IsNone(BestCand.total) /\ ~IsNone(BestCand.date)
    /\ Cardinality(Holders("store")) >= 2 /\ Holders("total") # {}
    /\ MostTrusted("store") # MostTrusted("total")
    /\ result.store = candidates[MostTrusted("store")].store
    /\ result.total = candidates[MostTrusted("total")].total
    /\ result.date = BestCand.date
    /\ \E i \in Holders("store") : candidates[i].store # result.store

SameFields(c, d) == c.store = d.store /\ c.total = d.total /\ c.date = d.date

\* C5 (as claimed): any two candidates with identical store, total and date
\* yield source_tag "consensus".
C5_AnyIdenticalPairConsensus ==
    Called =>
        ((\E i, j \in 1..Len(candidates) : i # j /\ SameFields(candidates[i], candidates[j]))
            => result.source_tag = "consensus")

AllPresent(c) == ~IsNone(c.store) /\ ~IsNone(c.total) /\ ~IsNone(c.date)

\* C5 (amended): when the selected best candidate and another candidate have
\* identical store, total and date, all three non-null, source_tag is
\* "consensus".
C5_IdenticalToBestConsensus ==
    Called =>
        ((\E i \in Others : SameFields(candidates[i], BestCand) /\ AllPresent(BestCand))
            => result.source_tag = "consensus")

C5_Witness ==
    /\ Called
    /\ Len(candidates) = 4
    /\ result.source_tag = "consensus"
    /\ \E i \in Others : SameFields(candidates[i], BestCand) /\ AllPresent(BestCand)
    /\ \E i \in Others : ~SameFields(candidates[i], BestCand)

\* No OCR source delivered a usable payload to this call.
NoSourceContributed ==
    /\ ~tess_rec.text
    /\ ~(ocrs.ok /\ ocrs.text)
    /\ ~(vision.ok /\ vision.text)
    /\ IsNone(paddle)

\* C6: when no OCR source contributed a candidate the result is
\* (null, null, null, "unknown"), and "unknown" is returned only then.
C6_NoCandidateYieldsUnknown ==
    Called =>
        /\ NoSourceContributed =>
              result = [store |-> None, total |-> None, date |-> None, source_tag |-> "unknown"]
        /\ result.source_tag = "unknown" => NoSourceContributed

\* C7: source_tag is "consensus", "unknown", or the name of a source whose
\* payload was present and usable in this call.
C7_TagNamesContributingSource ==
    Called =>
        \/ result.source_tag \in {"consensus", "unknown"}
        \/ result.source_tag = "tesseract" /\ tess_rec.text
        \/ result.source_tag = "ocr_space" /\ ocrs.ok /\ ocrs.text
        \/ result.source_tag = "vision" /\ vision.ok /\ vision.text
        \/ result.source_tag = "paddle_vl" /\ ~IsNone(paddle)

----------------------------------------------------------------------------
(* Claims about the amount extractors (specification SpecTotal) *)

Extracted == tpc = "done"

\* C8: the total returned by extract_total_textonly and extract_total_layout
\* is null or a number greater than or equal to 0, never a negative number.
C8_TotalNeverNegative ==
    Extracted => (IsNone(amount) \/ Val(amount) >= 0)

\* The layout mode has returned the amount of a word written with a minus sign.
C8_Witness ==
    /\ Extracted
    /\ called = "layout"
    /\ amount_from.path = "layout"
    /\ amount = Some(500)
    /\ \E i \in 1..Len(words) : words[i].text = "-5.00"
    /\ \A i \in 1..Len(words) : words[i].text # "" => words[i].text = "-5.00"

TextLinesRead == SelectSeq(full_text, NonBlank)

\* A line with a payment keyword (cash, tendered, ...).
PaymentLine(line) == \E i \in 1..Len(line) : line[i] \in {"CASH TENDERED", "CASH"}

HasAmount(line) == \E i \in 1..Len(line) : line[i] \in TextAmounts

ExampleC9 == <<<<"GRAND TOTAL", "1,234.56">>, <<"CASH TENDERED", "2,000.00">>>>

\* C9: text-only extraction never returns an amount read on a line with a
\* payment keyword; when every amount of the text is on such a line the
\* result is null; "GRAND TOTAL 1,234.56" followed by "CASH TENDERED 2,000.00"
\* yields 1234.56.
C9_PaymentLinesSkipped ==
    (Extracted /\ called = "textonly") =>
        /\ ~IsNone(amount) =>
              /\ amount_from.line \in 1..Len(TextLinesRead)
              /\ ~PaymentLine(TextLinesRead[amount_from.line])
              /\ \E k \in 1..Len(AmountsOfLine(TextLinesRead[amount_from.line])) :
                     AmountsOfLine(TextLinesRead[amount_from.line])[k] = Val(amount)
        /\ (\A i \in 1..Len(TextLinesRead) :
               HasAmount(TextLinesRead[i]) => PaymentLine(TextLinesRead[i]))
              => IsNone(amount)
        /\ full_text = ExampleC9 => amount = Some(123456)

\* The larger amount of a text stood on a payment line and was passed over:
\* by the keyword pass, which did not look below the total line, and by the
\* scored pass.
C9_Witness ==
    /\ Extracted
    /\ called = "textonly"
    /\ full_text = <<<<"GRAND TOTAL">>, <<"CASH TENDERED", "2,000.00">>, <<"1,234.56">>>>
    /\ amount = Some(123456)
    /\ amount_from.line = 3

\* The cases in which the layout mode has nothing to score: no word dicts,
\* none that is kept, or none that holds a monetary pattern.
NothingToScore ==
    \/ words = <<>>
    \/ \A i \in 1..Len(words) : words[i].text = "" \/ ~words[i].ok
    \/ \A i \in 1..Len(words) :
          (words[i].text # "" /\ words[i].ok) => words[i].text \notin PageAmounts

TextOnlyAmount ==
    LET r == extract_total_textonly(full_text)
    IN  IF r.has THEN Some(r.val) ELSE None

\* C10: extract_total_layout returns exactly extract_total_textonly(text) when
\* the token list is empty, every token is blank or malformed, or no line has
\* a monetary pattern; otherwise it returns the value of a maximum-scoring
\* layout candidate and does not take the text-only path.
C10_FallbackOrMaxCandidate ==
    (Extracted /\ called = "layout") =>
        IF NothingToScore
        THEN /\ amount_from.path = "textonly"
             /\ amount = TextOnlyAmount
        ELSE /\ amount_from.path = "layout"
             /\ \E k \in 1..Len(scored) :
                   /\ amount = Some(scored[k].value)
                   /\ \A j \in 1..Len(scored) : scored[k].score >= scored[j].score

\* A token list with words but no amount on them fell back to the text.
C10_Witness ==
    /\ Extracted
    /\ called = "layout"
    /\ \E i \in 1..Len(words) : words[i].text # "" /\ words[i].ok
    /\ NothingToScore
    /\ amount_from.path = "textonly"
    /\ amount = Some(123456)

KeptWords == SelectSeq(words, ValidToken)

BottomTop == SeqMax(Field(KeptWords, "top"))

OnBottomLine(w) == w.top = BottomTop

\* The bottom line of the page holds a TOTAL keyword and an amount in a font
\* taller than the median height, and no earlier line with an amount holds a
\* TOTAL keyword.
BottomTotalInLargeFont ==
    /\ KeptWords # <<>>
    /\ \E i, j \in 1..Len(KeptWords) :
          /\ OnBottomLine(KeptWords[i]) /\ KeptWords[i].text \in TotalKeyWords
          /\ OnBottomLine(KeptWords[j]) /\ AmountsIn(KeptWords[j].text) # <<>>
    /\ \A i \in 1..Len(KeptWords) :
          OnBottomLine(KeptWords[i]) => 2 * KeptWords[i].height > Median2(Tokens(words))
    /\ \A i, j \in 1..Len(KeptWords) :
          (~OnBottomLine(KeptWords[i]) /\ AmountsIn(KeptWords[i].text) # <<>>
              /\ KeptWords[j].top = KeptWords[i].top)
            => KeptWords[j].text \notin TotalKeyWords
    /\ \E i \in 1..Len(KeptWords) :
          ~OnBottomLine(KeptWords[i]) /\ AmountsIn(KeptWords[i].text) # <<>>

BottomAmount ==
    LET j == CHOOSE j \in 1..Len(KeptWords) :
                 OnBottomLine(KeptWords[j]) /\ AmountsIn(KeptWords[j].text) # <<>>
    IN  AmountsIn(KeptWords[j].text)[1]

\* C11: in layout mode an amount on the bottom line, with a TOTAL keyword and
\* in a font taller than the median, outranks the amounts of earlier lines
\* without a keyword: an earlier "120.00" and a bottom "TOTAL 450.00" in
\* larger font give 450.00.
C11_BottomTotalOutranksItems ==
    (Extracted /\ called = "layout" /\ BottomTotalInLargeFont) =>
        /\ amount = Some(BottomAmount)
        /\ amount_from.path = "layout"
        /\ amount_from.line = Len(LineInfos(Tokens(words)))

\* The page of the example: "120.00" on the first line, an item label, and
\* "TOTAL 450.00" in the large font on the bottom line.
C11_Witness ==
    /\ Extracted
    /\ called = "layout"
    /\ BottomTotalInLargeFont
    /\ Len(words) = 4
    /\ words[1].text = "120.00" /\ words[1].top = 0
    /\ words[3].text = "TOTAL" /\ words[4].text = "450.00"
    /\ words[4].height = 20 /\ words[4].top > words[1].top
    /\ amount = Some(45000)

\* The monetary pattern matches of the lines without a payment keyword, each
\* with its score in _score_amount_candidate.
ScoredMatches ==
    UNION {{[line |-> i, val |-> AmountsOfLine(TextLinesRead[i])[k],
             score |-> score_amount_candidate(i, AmountsOfLine(TextLinesRead[i])[k],
                                              TextLinesRead)] :
               k \in 1..Len(AmountsOfLine(TextLinesRead[i]))} :
              i \in {h \in 1..Len(TextLinesRead) : ~PaymentLine(TextLinesRead[h])}}

\* C24: extract_total_textonly returns the value of the match of the highest
\* score among all matches on lines without a payment keyword, and among
\* matches of equal score the larger value, also when several lines have a
\* total keyword or a line has several amounts; null when there is no match.
C24_MaxScoringMatchReturned ==
    (Extracted /\ called = "textonly") =>
        IF ScoredMatches = {} THEN IsNone(amount)
        ELSE \E m \in ScoredMatches :
                /\ amount = Some(m.val)
                /\ \A o \in ScoredMatches :
                      o.score < m.score \/ (o.score = m.score /\ o.val <= m.val)

\* C25: of two lines of the same content with an amount, the one nearer the
\* bottom of the text earns a position bonus at least as large as the other,
\* and no position bonus is above 2.
C25_BottomLinesEarnMore ==
    (Extracted /\ called = "textonly") =>
        \A i, j \in 1..Len(TextLinesRead) :
            /\ position_bonus(i, Len(TextLinesRead)) <= 2 * TextScale
            /\ (i < j /\ TextLinesRead[i] = TextLinesRead[j] /\ HasAmount(TextLinesRead[i]))
                  => position_bonus(i, Len(TextLinesRead))
                        <= position_bonus(j, Len(TextLinesRead))

\* The number of lines of the layout.
LineCount == Len(LineInfos(Tokens(words)))

\* C26: of two layout candidates of the same amount on different lines, the
\* one on the later line earns a position bonus at least as large as the
\* other, whatever the number of lines.
C26_LaterLinesEarnMore ==
    (Extracted /\ called = "layout") =>
        \A j, k \in 1..Len(scored) :
            (scored[j].line < scored[k].line /\ scored[j].value = scored[k].value)
               => PositionBonus(scored[j].line - 1, LineCount)
                     <= PositionBonus(scored[k].line - 1, LineCount)

----------------------------------------------------------------------------
(* Claims about extract_date (specification SpecDate) *)

DateExtracted == dpc = "done"

\* The first line of the text holds a date-hint keyword and the ISO form of
\* the calendar date dt.
HintLineWithIso(dt) ==
    /\ dtext # <<>>
    /\ dtext[1].hint
    /\ dtext[1].date = Some(IsoForm(dt))

\* C12: for every valid calendar date D, if a line of the text holds a
\* date-hint keyword and the ISO form of D, extract_date returns exactly D,
\* also when the day number of D is 12 or less.
C12_HintedIsoDateReturnedExactly ==
    \A dt \in CalendarDates :
        (DateExtracted /\ HintLineWithIso(dt)) => ddate = Some(dt)

\* Whether the date written in line l parses to a calendar date.
Parseable(l) == l.date # None /\ try_parse_date(Val(l.date)) # None

\* The lines looked at under the date hints, in the order of the loops of
\* extract_date: every hint line in reading order, each followed by the
\* line after it.
HintLooks(lines) ==
    LET Looks(i) == IF ~lines[i].hint THEN <<>>
                    ELSE IF i < Len(lines) THEN <<lines[i], lines[i + 1]>> ELSE <<lines[i]>>
        F[i \in 0..Len(lines)] == IF i = 0 THEN <<>> ELSE F[i - 1] \o Looks(i)
    IN  F[Len(lines)]

\* C27: a date near a date hint has precedence: the result is the first
\* parseable date among the hint lines in reading order, each hint line
\* before the line after it; when none of them holds a parseable date the
\* result is a parseable date of the whole text, and it is null only when
\* the whole text holds no parseable date.
C27_HintedDateElseWholeText ==
    DateExtracted =>
        LET looks == HintLooks(dtext)
            hinted == {k \in 1..Len(looks) : Parseable(looks[k])}
            anywhere == {i \in 1..Len(dtext) : Parseable(dtext[i])}
        IN  IF hinted # {} THEN ddate = try_parse_date(Val(looks[Least(hinted)].date))
            ELSE IF anywhere # {} THEN \E i \in anywhere : ddate = try_parse_date(Val(dtext[i].date))
            ELSE ddate = None

\* The part of C27 about the hint lines alone.
HintedDateHasPrecedence ==
    DateExtracted =>
        LET looks == HintLooks(dtext)
            hinted == {k \in 1..Len(looks) : Parseable(looks[k])}
        IN  hinted # {} => ddate = try_parse_date(Val(looks[Least(hinted)].date))

----------------------------------------------------------------------------
(* Claims about extract_store (specification SpecStore) *)

StoreExtracted == xpc = "done"

\* Whether s holds a boilerplate token, in any case.
HasBoilerplate(s) ==
    \E tok \in SKIP_STORE : Contains(Recase(s, Alphabet.upper, Alphabet.lower), tok)

\* Whether s holds a run of at least n letters.
HasLetterRun(s, n) ==
    \E i \in 1..(Len(s) - n + 1) : \A k \in i..(i + n - 1) : IsLetter(s[k])

\* The first 12 non-blank lines of the text read.
StoreHead == SubSeq(NonBlankLines(xtext), 1, Min2(StoreLineLimit, Len(NonBlankLines(xtext))))

\* The places in StoreHead of the lines free of boilerplate tokens that hold
\* a run of at least 3 letters.
QualifyingLines == {k \in 1..Len(StoreHead) : ~HasBoilerplate(StoreHead[k]) /\ HasLetterRun(StoreHead[k], 3)}

\* The string returned for a line: the glyph fixups and the white-space
\* normalisation applied to the line without its leading and trailing marks.
FixedUp(line) ==
    norm(Replace(Replace(StoreCand(line), 1, <<"|">>, <<"I">>), 1, <<"0", "/">>, <<"Q">>))

\* The first part of C28: the store is read from the first qualifying line
\* of the first 12 non-blank lines, and is null when there is none.
FirstQualifyingLineReturned ==
    StoreExtracted =>
        IF QualifyingLines = {} THEN xstore = None
        ELSE xstore = Some(FixedUp(StoreHead[Least(QualifyingLines)]))

\* The second part of C28: the returned string holds no boilerplate token.
ReturnedStoreHasNoBoilerplate ==
    (StoreExtracted /\ xstore # None) => ~HasBoilerplate(Val(xstore))

\* C28: extract_store looks at the first 12 non-blank lines only and returns
\* the first of them that holds no boilerplate token and holds a run of at
\* least 3 letters, null when there is none; the returned string, after the
\* glyph fixups and the white-space normalisation, holds no boilerplate
\* token.
C28_FirstWordyLineWithoutBoilerplate ==
    FirstQualifyingLineReturned /\ ReturnedStoreHasNoBoilerplate

\* The part of C28 about the limit: a line after the twelfth non-blank line
\* is never the one returned.
OnlyFirstTwelveLines ==
    (StoreExtracted /\ xstore # None) =>
        \E k \in 1..Len(StoreHead) : xstore = Some(FixedUp(StoreHead[k]))

----------------------------------------------------------------------------
(* Claims about the cache of validated tokens (specification SpecAuth) *)

\* C30: the cache never serves a payload past the validity of its token: a
\* payload with an exp claim is answered from the cache only at times
\* strictly before exp, also for a token validated less than 10 seconds
\* before its exp.
C30_CacheNeverServesPastExp ==
    (served # None /\ Val(served).how = "cached" /\ Val(served).exp # None)
        => Val(served).at < Val(Val(served).exp)

\* The part of C30 about eviction: an entry found at or past its expiry is
\* removed by the lookup, which reports a miss.
ExpiredEntryEvicted ==
    \A t \in BearerTokens :
        (user_cache[t.id] # None /\ Val(user_cache[t.id]) <= now)
            => LET looked == cache_lookup(user_cache, t, now)
               IN  ~looked.hit /\ looked.cache[t.id] = None

\* The part of C30 about the stored expiry: an entry of a token with an exp
\* claim expires at exp minus the grace of 10 seconds.
StoredExpiryIsExpMinusGrace ==
    \A t \in BearerTokens :
        (user_cache[t.id] # None /\ t.exp # None)
            => Val(user_cache[t.id]) = Val(t.exp) - CACHE_GRACE

----------------------------------------------------------------------------
(* Claims about the pipeline of one receipt (specifications SpecPipeline
   and FairPipeline) *)

Status(j) == IF jobs[j] = None THEN "" ELSE Val(jobs[j]).status

\* Whether a provider of job j raised or was cancelled on its timeout.
ProviderFailed(j) == \E p \in Providers : work[j].prov[p] \in {"raised", "cancelled"}

\* C21: the failure of an OCR provider never fails the receipt: when a
\* provider of a job raised or timed out and nothing but providers went
\* wrong, the readings of the others are reconciled and the job ends
\* completed, not failed.
C21_ProviderFailureNeverFailsJob ==
    \A j \in JobIds :
        (work[j].pc = "done" /\ ProviderFailed(j) /\ work[j].exc # Some("insert_receipt"))
            => (Status(j) = "completed" /\ work[j].resolved = 1)

\* The part of C21 that holds: an exception or a timeout of a provider task
\* (paddle_vl, tesseract, ocr_space) never fails the job.
TaskFailureNeverFailsJob ==
    \A j \in JobIds :
        (work[j].pc = "done" /\ work[j].exc = None) => Status(j) = "completed"

\* Whether the pipeline of job j is waiting for a provider.
Awaiting(j) == work[j].pc \in {"paddle_vl", "tesseract", "ocr_space", "vision_wait"}

\* C22: every provider is awaited under a timeout of its own, so no provider
\* that never returns blocks the pipeline: a job waiting for a provider
\* eventually stops waiting for it.
C22_NoProviderBlocksPipeline ==
    \A j \in JobIds : Awaiting(j) ~> ~Awaiting(j)

\* The part of C22 that holds: the wait for paddle_vl always ends.
PaddleNeverBlocksPipeline ==
    \A j \in JobIds : (work[j].pc = "paddle_vl") ~> (work[j].pc # "paddle_vl")

\* C23: resolve_fields is called exactly once for each job, and only when
\* no provider task of the job is still running.
C23_ResolvedOnceAfterProviders ==
    \A j \in JobIds :
        /\ work[j].resolved <= 1
        /\ work[j].resolved = 1 => \A p \in Providers : work[j].prov[p] # "running"
        /\ work[j].pc = "done" => work[j].resolved = 1

\* The part of C23 that holds: never twice, and never while a provider task
\* is running.
ResolvedAtMostOnceAfterProviders ==
    \A j \in JobIds :
        /\ work[j].resolved <= 1
        /\ work[j].resolved = 1 => \A p \in Providers : work[j].prov[p] # "running"

----------------------------------------------------------------------------
(* Claims about the job registry (specifications SpecJobs and FairJobs) *)

\* A job is queued with neither result nor error, holds a result only when
\* completed and an error only when failed.
JobFieldsConsistent ==
    \A j \in JobIds :
        jobs[j] # None =>
            /\ Val(jobs[j]).status \in {"queued", "processing", "completed", "failed"}
            /\ Val(jobs[j]).result # None => Val(jobs[j]).status = "completed"
            /\ Val(jobs[j]).error # None => Val(jobs[j]).status = "failed"

\* The order of the statuses.
Rank(status) ==
    CASE status = "queued" -> 1
      [] status = "processing" -> 2
      [] OTHER -> 3

\* A step registers a job as queued, moves a job forward, or leaves it; a
\* job completed or failed keeps its status; a job leaves the registry only
\* when completed or failed, and then no job left in the registry that is
\* completed or failed was updated before it.
JobsStepForward ==
    \A j \in JobIds :
        /\ (jobs[j] = None /\ jobs'[j] # None) => Val(jobs'[j]).status = "queued"
        /\ (jobs[j] # None /\ jobs'[j] # None) =>
              /\ Rank(Val(jobs[j]).status) <= Rank(Val(jobs'[j]).status)
              /\ Rank(Val(jobs[j]).status) = 3 => Val(jobs'[j]).status = Val(jobs[j]).status
        /\ (jobs[j] # None /\ jobs'[j] = None) =>
              /\ Val(jobs[j]).status \in {"completed", "failed"}
              /\ \A k \in JobIds :
                    (jobs'[k] # None /\ Val(jobs'[k]).status \in {"completed", "failed"})
                        => Val(jobs[j]).updated_at <= Val(jobs'[k]).updated_at

StatusOnlyMovesForward == [][JobsStepForward]_vars

\* Every job registered eventually ends (completed or failed).
EveryJobEnds ==
    \A j \in JobIds : (work[j].pc # "none") ~> (work[j].pc = "done")

\* C29: a job starts queued and its status only moves forward, to completed
\* or failed, where it stays; the result is set only when completed and the
\* error only when failed; pruning removes only jobs completed or failed,
\* the oldest update first; and with fair scheduling every job registered
\* eventually is completed or failed.
C29_JobsMoveForwardAndEnd ==
    /\ []JobFieldsConsistent
    /\ StatusOnlyMovesForward
    /\ EveryJobEnds

----------------------------------------------------------------------------
(* Claims about ph_rules.py (specification SpecBrand) *)

Snapping == spc = "snapped"

\* C13: normalize_store_name is idempotent: normalizing its own result
\* changes nothing (also for repeated OCR misspellings such as extra letters
\* after ELEVEN).
C13_NormalizeIdempotent ==
    Snapping => normalize_store_name(normed) = normed

\* The text of s after its first newline (empty when s has none).
AfterNewline(s) ==
    LET nl == {k \in 1..Len(s) : s[k] = "\n"}
    IN  IF nl = {} THEN <<>> ELSE SubSeq(s, (CHOOSE k \in nl : \A j \in nl : k <= j) + 1, Len(s))

\* C14: of a raw store string of several lines only the first line is kept:
\* the text that followed the first newline does not appear in the result.
C14_FirstLineOnly ==
    (Snapping /\ raw_store # None /\ normed # None /\ AfterNewline(Val(raw_store)) # <<>>)
        => ~Contains(Val(normed), AfterNewline(Val(raw_store)))

ExampleC15 == <<"<cent>", "-", "E", "L", "E", "W", "E", "M", " ", "B", "R", "A", "N", "C", "H", " ", "1", "2", "3">>

SevenElevenBrand == <<"7", "-", "E", "L", "E", "V", "E", "N">>

\* C15: the raw store "<cent>-ELEWEM BRANCH 123" normalizes to "7-ELEVEN",
\* correct_store_name returns brand "7-ELEVEN" with category "Food", and
\* rule_category with that store returns category "Food".
C15_CentElewemIsSevenEleven ==
    raw_store = Some(ExampleC15) =>
        /\ Snapping =>
              /\ normed = Some(SevenElevenBrand)
              /\ \A p \in Procs :
                    snapped[p] = Snapped(Some(SevenElevenBrand), Some("Food"), Some(Frac(1, 1)))
        /\ spc = "categorized" => category.cat = Some("Food")

C15_Witness ==
    /\ raw_store = Some(ExampleC15)
    /\ spc = "categorized"
    /\ category = Categorized(Some("Food"), "brand", Some(SevenElevenBrand), Some(Frac(1, 1)))

\* C16: for every alias of the alias map, when the upper-cased normalized
\* store contains the alias, the matcher accepts the alias's canonical brand
\* at confidence 1.0, before exact containment and fuzzy matching.
C16_AliasAccepted ==
    \A k \in 1..Len(ALIAS_MAP), p \in Procs :
        (/\ Snapping
         /\ normed # None
         /\ Contains(Recase(Val(normed), Alphabet.lower, Alphabet.upper), ALIAS_MAP[k][1]))
            => /\ snapped[p].brand = Some(ALIAS_MAP[k][2])
               /\ snapped[p].score = Some(Frac(1, 1))

\* An alias with a dictionary brand, or a dictionary brand, is found in the
\* normalized store by containment.
FoundByContainment ==
    \/ \E k \in 1..Len(ALIAS_MAP) :
          /\ Contains(Recase(Val(normed), Alphabet.lower, Alphabet.upper), ALIAS_MAP[k][1])
          /\ CategoryOf(ALIAS_MAP[k][2]) # None
    \/ \E b \in Range(all_brands(1, 0)) : Contains(Val(normed), b) \/ Contains(b, Val(normed))

BestFuzzy(p) == best_match(Val(normed), all_brands(1, hashseed[p])).score

\* C17: correct_store_name returns a brand only on an alias or containment
\* match (score 1.0) or a best fuzzy score of at least 0.84; below 0.84 it
\* returns (null, null, best score).  The brand is null exactly when the
\* category is null, a returned brand is in the dictionary and its category
\* is that of the set holding it.
C17_ThresholdAndShape ==
    \A p \in Procs :
        Snapping =>
            /\ snapped[p].brand # None =>
                  /\ snapped[p].score # None
                  /\ \/ FoundByContainment /\ snapped[p].score = Some(Frac(1, 1))
                     \/ ~FracLess(Val(snapped[p].score), min_required)
                  /\ Val(snapped[p].brand) \in Range(all_brands(1, 0))
                  /\ snapped[p].cat = CategoryOf(Val(snapped[p].brand))
            /\ (snapped[p].brand = None) <=> (snapped[p].cat = None)
            /\ (/\ normed # None /\ Val(normed) # <<>>
                /\ ~FoundByContainment
                /\ FracLess(BestFuzzy(p), min_required))
                  => snapped[p] = Snapped(None, None, Some(BestFuzzy(p)))

Categorizing == spc = "categorized"

FixedOrder == <<"Utilities", "Transportation", "Health & Wellness", "Groceries", "Food">>

\* The categories with a keyword occurring in the lower-cased receipt text.
KeywordHits ==
    LET low == Recase(IF receipt_text = None THEN <<>> ELSE Val(receipt_text),
                      Alphabet.upper, Alphabet.lower)
    IN  {e.cat : e \in {e \in Range(ALL_SETS) : \E k \in e.kw : Contains(low, k)}}

\* C18: rule_category returns the matcher's category whenever the matcher
\* accepts a brand for the store, whatever the keywords of the text;
\* otherwise the first category with a keyword hit in the order Utilities,
\* Transportation, Health & Wellness, Groceries, Food, with reason
\* "keywords"; otherwise (null, null).  The reason is null exactly when the
\* category is null.
C18_BrandThenKeywordOrder ==
    Categorizing =>
        LET accepted == correct_store_name(raw_store, hashseed[1])
        IN  /\ accepted.brand # None =>
                  /\ category.cat = accepted.cat
                  /\ category.by = "brand"
            /\ (accepted.brand = None /\ KeywordHits # {}) =>
                  /\ category.by = "keywords"
                  /\ \E k \in 1..Len(FixedOrder) :
                        /\ category.cat = Some(FixedOrder[k])
                        /\ FixedOrder[k] \in KeywordHits
                        /\ \A h \in 1..(k - 1) : FixedOrder[h] \notin KeywordHits
            /\ (accepted.brand = None /\ KeywordHits = {}) =>
                  category = Categorized(None, "", None, None)
            /\ (category.by = "") <=> (category.cat = None)

\* No store, and a text with keywords of Utilities (load) and of
\* Transportation (diesel, liter): Utilities by keywords.
C18_Witness ==
    /\ Categorizing
    /\ raw_store = None
    /\ receipt_text = Some(<<"D", "I", "E", "S", "E", "L", " ", "4", "0", " ", "l", "i", "t", "e", "r", ",", " ", "l", "o", "a", "d">>)
    /\ KeywordHits = {"Utilities", "Transportation"}
    /\ category = Categorized(Some("Utilities"), "keywords", None, None)

\* C20: the brand matcher is a deterministic function of its input: the
\* evaluations of correct_store_name on the same store string in two
\* processes return the same brand, category and score, also when several
\* dictionary brands match equally well.
C20_SameResultInEveryProcess ==
    Snapping => \A p, r \in Procs : snapped[p] = snapped[r]

----------------------------------------------------------------------------
(* Claims about all core operations (specification SpecCore) *)

\* The word dicts whose text is not blank and whose box fields are numbers.
WellFormedWords == SelectSeq(words, LAMBDA w : w.text # "" /\ w.ok)

\* Malformed word dicts are skipped: the amount is the one extracted from the
\* well-formed words alone, and None when neither they nor the text hold one.
MalformedTokensSkipped ==
    (Extracted /\ called = "layout") =>
        /\ words # WellFormedWords =>
              LET r == extract_total_layout(WellFormedWords, full_text)
              IN  amount = IF r.has THEN Some(r.val) ELSE None
        /\ (WellFormedWords = <<>> /\ full_text = <<>>) => amount = None

EmptyTextNoAmount ==
    (Extracted /\ called = "textonly" /\ full_text = <<>>) => amount = None

\* A date that does not parse is passed over: a hint line with such a date is
\* followed by the scan of the next line, and a text in which no written
\* date parses gives None.
UnparseableDatesSkipped ==
    DateExtracted =>
        /\ (\A k \in 1..Len(dtext) :
               dtext[k].date = None \/ try_parse_date(Val(dtext[k].date)) = None)
              => ddate = None
        /\ (/\ Len(dtext) = 2
            /\ dtext[1].hint /\ dtext[1].date # None
            /\ try_parse_date(Val(dtext[1].date)) = None
            /\ dtext[2].date # None)
              => ddate = try_parse_date(Val(dtext[2].date))

NoStoreNoBrand ==
    raw_store \in {None, Some(<<>>)} =>
        /\ Snapping =>
              /\ normed = None
              /\ \A p \in Procs : snapped[p] = Snapped(None, None, None)
        /\ (Categorizing /\ KeywordHits = {}) => category = Categorized(None, "", None, None)

\* No provider payload holds a reading: failed, without text, or without fields.
NoReading ==
    /\ tess_rec \in {TessFailed, TessBlank}
    /\ ~(ocrs.ok /\ ocrs.text) \/ (ocrs.store = None /\ ocrs.total = None /\ ocrs.date = None)
    /\ ~(vision.ok /\ vision.text)
          \/ (vision.store = None /\ vision.total = None /\ vision.date = None)
    /\ paddle = None

FailedPayloadsGiveNulls ==
    (Called /\ NoReading) =>
        result.store = None /\ result.total = None /\ result.date = None

====
